---- MODULE Spec2Model ----
(***************************************************************************)
(* Restyle benchmark core: run-specification validator, ACRUE v3 scorer,   *)
(* grade functions, rank aggregator, dual-judge synthesizer, persistence   *)
(* ledger and the regression comparator, modelled from                     *)
(* benchmark_orchestrator.py, run_acrue_v3.py, run_acrue_eval.py,          *)
(* config.py, create_benchmark_ledger.py and compare_runs.py.  Each        *)
(* component has its own specification (SpecValidator, SpecScorer, ...);   *)
(* the variables of the other components stay at their idle values.        *)
(*                                                                         *)
(* Numbers.  Scores are integers in hundredths of a point (25.00 -> 2500), *)
(* percentages are integers in hundredths of a percent (89.96 -> 8996).    *)
(* Python's round(x, n) is modelled by RoundDiv (round half to even), which *)
(* is what round() does on a value its binary float holds exactly; the     *)
(* value sets below are chosen so that every value that reaches a round()  *)
(* is either exactly representable or not a tie.                           *)
(*                                                                         *)
(* A Python dict is a function whose DOMAIN is the set of its keys;        *)
(* d.get(k, default) is Get(d, k, default).                                *)
(***************************************************************************)
EXTENDS Integers, Sequences, FiniteSets, TLC

VARIABLES
    runSpecFile,   \* run_spec.json at RUN_SPEC_PATH: missing, invalid JSON, or a JSON object
    dirs,          \* the output directories under PROJECT_ROOT and the run_spec.json copy in each
    envKey,        \* whether GEMINI_API_KEY is set (non-empty) in the environment
    outcome,       \* what the last orchestrator command did (exception, error lines, return value)
    judge,         \* the judge's response for one item: gemini_response["dimensions"]
    evaluation,    \* the record evaluate_images builds from it (dimensions, summary)
    pct,           \* a percentage handed to the get_grade functions
    grades,        \* the grade each get_grade implementation returned for pct
    producer,      \* which evaluation script wrote acrue.json (it fixes the record shape)
    acrue,         \* acrue.json: the list of per-item evaluation records
    gemini,        \* what compute-rankings did: the exception raised, or the rankings of gemini.json
    synthSpec,     \* the run spec handed to synthesize_results (styles, synthesis weights)
    geminiRankings, \* gemini.json as the synthesize command reads it (feasibility judge)
    opusRankings,  \* opus.json as the synthesize command reads it (preference judge)
    synthesis,     \* what synthesize_results returned (NoDict before the command)
    excel,         \* the file at EXCEL_PATH: missing, not a valid .xlsx, or a workbook
    backup,        \* the file at EXCEL_PATH.with_suffix(".xls.bak")
    writers,       \* each orchestrator process running persist: its position and its open workbook
    clock,         \* how many persists have started (datetime.now() of the summary row)
    found,         \* the contents persist_to_excel has found not to be a valid .xlsx so far
    runFiles,      \* synthesis.json, gemini.json and acrue.json of one run directory
    runResults,    \* what load_run_results returned for that run (NoDict before the call)
    runsDir,       \* RUNS_DIR: whether it exists, and the entries (run directories, files) in it
    cmpSpec,       \* the run spec the orchestrator loads for synthesize and compare
    cmpOut         \* what the last comparing command did: whether it called run_comparison,
                   \* the baseline, whether find_latest_prior_run was consulted (auto),
                   \* the comparison, the exception and the files it wrote

valVars == <<runSpecFile, dirs, envKey, outcome>>
scoreVars == <<judge, evaluation>>
gradeVars == <<pct, grades>>
rankVars == <<producer, acrue, gemini>>
synthVars == <<synthSpec, geminiRankings, opusRankings, synthesis>>
ledgerVars == <<excel, backup, writers, clock, found>>
loaderVars == <<runFiles, runResults>>
compVars == <<runsDir, cmpSpec, cmpOut>>
vars == <<valVars, scoreVars, gradeVars, rankVars, synthVars, ledgerVars, loaderVars, compVars>>

\* What the actions of one component leave unchanged.
notValidator == <<scoreVars, gradeVars, rankVars, synthVars, ledgerVars, loaderVars, compVars>>
notScorer == <<valVars, gradeVars, rankVars, synthVars, ledgerVars, loaderVars, compVars>>
notGrader == <<valVars, scoreVars, rankVars, synthVars, ledgerVars, loaderVars, compVars>>
notRanker == <<valVars, scoreVars, gradeVars, synthVars, ledgerVars, loaderVars, compVars>>
notSynth == <<valVars, scoreVars, gradeVars, rankVars, ledgerVars, loaderVars, compVars>>
notLedger == <<valVars, scoreVars, gradeVars, rankVars, synthVars, loaderVars, compVars>>
notLoader == <<valVars, scoreVars, gradeVars, rankVars, synthVars, ledgerVars, compVars>>
notComparator == <<valVars, scoreVars, gradeVars, rankVars, synthVars, ledgerVars, loaderVars>>

----------------------------------------------------------------------------
(* Helpers *)

Get(d, k, default) == IF k \in DOMAIN d THEN d[k] ELSE default

Range(s) == {s[i] : i \in DOMAIN s}

----------------------------------------------------------------------------
(* 4.1 Run specification validator: benchmark_orchestrator.py              *)

\* Longest styles array a written run spec carries (the shortest has 2 entries).
MaxStyles == 3

StyleNames == <<"Anime", "Pop Art", "Storybook", "Doodle", "Graffiti", "Plush Toy">>

RunIds == {"r1", "r2"}

\* RUNS_DIR / run_id, relative to PROJECT_ROOT
RunDir(id) == "runs/" \o id

OutputDirs == {RunDir(id) : id \in RunIds}

\* The JSON objects an operator writes to run_spec.json.  run_id and styles are
\* always there; image_count, output_dir and baseline_run_id, which
\* validate_phase1 reads with .get(), may be absent.  image_count is 3 when
\* present, and the baseline, when set, is run r1.
OptionalKeys == {"image_count", "output_dir", "baseline_run_id"}

RunSpecs ==
    { [k \in ({"run_id", "styles"} \cup opt) |->
          CASE k = "run_id" -> "run"
            [] k = "styles" -> SubSeq(StyleNames, 1, n)
            [] k = "image_count" -> 3
            [] k = "output_dir" -> od
            [] k = "baseline_run_id" -> "r1"] :
        opt \in SUBSET OptionalKeys, n \in 2..MaxStyles, od \in OutputDirs }

NoDict == [k \in {} |-> 0]

\* The variables of the components a specification leaves alone.
IdleValidator ==
    /\ runSpecFile = [state |-> "missing", json |-> NoDict]
    /\ dirs = NoDict
    /\ envKey = FALSE
    /\ outcome = NoDict
IdleScorer == judge = NoDict /\ evaluation = NoDict
IdleGrader == pct = 0 /\ grades = NoDict
IdleRanker == producer = "" /\ acrue = <<>> /\ gemini = NoDict
IdleSynth ==
    /\ synthSpec = NoDict
    /\ geminiRankings = NoDict
    /\ opusRankings = NoDict
    /\ synthesis = NoDict
IdleLedger ==
    /\ excel = NoDict
    /\ backup = NoDict
    /\ writers = NoDict
    /\ clock = 0
    /\ found = {}
IdleLoader == runFiles = NoDict /\ runResults = NoDict
IdleComparator == runsDir = NoDict /\ cmpSpec = NoDict /\ cmpOut = NoDict

FileMissing == [state |-> "missing", json |-> NoDict]
FileInvalid == [state |-> "invalid", json |-> NoDict]
FileJson(s) == [state |-> "json", json |-> s]

NoDir == [exists |-> FALSE, run_spec |-> NoDict]

\* Path.exists() for SCRIPT_DIR / p: the project root itself (p = "") always exists.
PathExists(fsys, p) == p = "" \/ (p \in DOMAIN fsys /\ fsys[p].exists)

Returned(v) == [exc |-> "none", errors |-> <<>>, checked |-> <<>>, value |-> v]
Raised(kind, errs, chk) == [exc |-> kind, errors |-> errs, checked |-> chk, value |-> NoDict]

load_run_spec(file) ==
    IF file.state = "missing" THEN Raised("ValidationError", <<"V1">>, <<"V1">>)
    ELSE IF file.state = "invalid" THEN Raised("ValidationError", <<"V2">>, <<"V1", "V2">>)
    ELSE Returned(file.json)

\* The checks V3..V7 on a parsed spec, each appending its line to errors.
CheckLines(spec, fsys, key) ==
    LET styles == Get(spec, "styles", <<>>)
        image_count == Get(spec, "image_count", 0)
        output_dir == Get(spec, "output_dir", "")
        baseline_run_id == Get(spec, "baseline_run_id", "")
        e3 == IF Len(styles) /= 3 THEN <<"V3">> ELSE <<>>
        e4 == IF image_count /= 3 THEN <<"V4">> ELSE <<>>
        e5 == IF PathExists(fsys, output_dir) THEN <<"V5">> ELSE <<>>
        e6 == IF baseline_run_id /= "" /\ ~PathExists(fsys, RunDir(baseline_run_id))
              THEN <<"V6">> ELSE <<>>
        e7 == IF ~key THEN <<"V7">> ELSE <<>>
    IN  e3 \o e4 \o e5 \o e6 \o e7

\* Faulty variant: fail-fast, reports the first failed check only.
validate_phase1_failfast(file, fsys, key) ==
    LET loaded == load_run_spec(file)
        errors == CheckLines(loaded.value, fsys, key)
    IN  IF loaded.exc /= "none" THEN loaded
        ELSE IF errors /= <<>>
             THEN Raised("ValidationError", <<Head(errors)>>, <<"V1", "V2", "V3", "V4", "V5", "V6", "V7">>)
             ELSE [Returned(loaded.value) EXCEPT !.checked = <<"V1", "V2", "V3", "V4", "V5", "V6", "V7">>]

\* Faulty variant: a spec that fails to parse does not stop the checks (they run on an empty spec).
validate_phase1_noshortcut(file, fsys, key) ==
    LET loaded == load_run_spec(file)
        errors == loaded.errors \o CheckLines(loaded.value, fsys, key)
    IN  IF errors /= <<>>
        THEN Raised("ValidationError", errors, <<"V1", "V2", "V3", "V4", "V5", "V6", "V7">>)
        ELSE [Returned(loaded.value) EXCEPT !.checked = <<"V1", "V2", "V3", "V4", "V5", "V6", "V7">>]

validate_phase1(file, fsys, key) ==
    IF file.state = "missing" THEN Raised("ValidationError", <<"V1">>, <<"V1">>)
    ELSE LET loaded == load_run_spec(file)
         IN  IF loaded.exc /= "none" THEN loaded
             ELSE LET spec == loaded.value
                      errors == CheckLines(spec, fsys, key)
                      checked == <<"V1", "V2", "V3", "V4", "V5", "V6", "V7">>
                  IN  IF errors /= <<>>
                      THEN Raised("ValidationError", errors, checked)
                      ELSE [Returned(spec) EXCEPT !.checked = checked]

\* init_output_dir: mkdir(parents=True, exist_ok=True) and the copy of run_spec.json.
init_output_dir(spec, fsys) ==
    [fsys EXCEPT ![spec["output_dir"]] = [exists |-> TRUE, run_spec |-> spec]]

NoOutcome == [cmd |-> "none", exit |-> 0, exc |-> "none", errors |-> <<>>,
              checked |-> <<>>, value |-> NoDict]

Outcome(cmd, r) ==
    [cmd |-> cmd, exit |-> IF r.exc = "none" THEN 0 ELSE 1, exc |-> r.exc,
     errors |-> r.errors, checked |-> r.checked, value |-> r.value]

InitValidator ==
    /\ runSpecFile = FileMissing
    /\ dirs = [d \in OutputDirs |-> NoDir]
    /\ envKey = FALSE
    /\ outcome = NoOutcome
    /\ IdleScorer /\ IdleGrader /\ IdleRanker /\ IdleSynth /\ IdleLedger /\ IdleLoader /\ IdleComparator

\* The operator writes run_spec.json.
WriteRunSpec ==
    /\ \E s \in RunSpecs : runSpecFile' = FileJson(s)
    /\ outcome' = NoOutcome
    /\ UNCHANGED <<dirs, envKey, notValidator>>

\* run_spec.json is left truncated or hand-edited into invalid JSON, or removed.
BreakRunSpec ==
    /\ \E f \in {FileInvalid, FileMissing} : runSpecFile' = f
    /\ runSpecFile' /= runSpecFile
    /\ outcome' = NoOutcome
    /\ UNCHANGED <<dirs, envKey, notValidator>>

SetEnv ==
    /\ envKey' = ~envKey
    /\ outcome' = NoOutcome
    /\ UNCHANGED <<runSpecFile, dirs, notValidator>>

\* main(): command "validate"
ValidateCmd ==
    /\ outcome' = Outcome("validate", validate_phase1(runSpecFile, dirs, envKey))
    /\ UNCHANGED <<runSpecFile, dirs, envKey, notValidator>>

\* main(): command "init" (load_run_spec, then init_output_dir; no validation)
InitCmd ==
    LET loaded == load_run_spec(runSpecFile)
    IN  IF loaded.exc /= "none"
        THEN /\ outcome' = Outcome("init", loaded)
             /\ UNCHANGED <<runSpecFile, dirs, envKey, notValidator>>
        ELSE IF "output_dir" \notin DOMAIN loaded.value
        THEN /\ outcome' = Outcome("init", Raised("KeyError", <<>>, <<>>))
             /\ UNCHANGED <<runSpecFile, dirs, envKey, notValidator>>
        ELSE /\ dirs' = init_output_dir(loaded.value, dirs)
             /\ outcome' = Outcome("init", Returned(loaded.value))
             /\ UNCHANGED <<runSpecFile, envKey, notValidator>>

NextValidator ==
    \/ WriteRunSpec
    \/ BreakRunSpec
    \/ SetEnv
    \/ ValidateCmd
    \/ InitCmd

SpecValidator == InitValidator /\ [][NextValidator]_vars

----------------------------------------------------------------------------
(* 4.2 Assertion-based scorer: run_acrue_v3.py, run_acrue_eval.py, config.py *)

\* Round half to even of n / d (d > 0): Python's round() on an exact value.
RoundDiv(n, d) ==
    LET q == n \div d
        r == n % d
    IN  IF 2 * r < d THEN q
        ELSE IF 2 * r > d THEN q + 1
        ELSE IF q % 2 = 0 THEN q ELSE q + 1

Dimensions == <<"accuracy", "completeness", "relevance", "usefulness", "exceptional">>

\* WEIGHTS, as twice the weight: 1.0, 1.0, 0.5, 0.5, 2.0
Weight2(dimension) ==
    CASE dimension = "accuracy" -> 2
      [] dimension = "completeness" -> 2
      [] dimension = "relevance" -> 1
      [] dimension = "usefulness" -> 1
      [] dimension = "exceptional" -> 4

\* MAX_SCORE = 25.0, in hundredths of a point
MAX_SCORE == 2500

\* The judge reports dimension_score in thousandths of a point, in steps of 1.25
\* (exact in binary floating point): -1.25, 0, 1.25, ..., MaxJudgeUnits * 1.25.
\* 5.0 is 4 steps; the judge is an LLM and may report a value outside [0,5].
MaxJudgeUnits == 5
JudgeScores == {1250 * i : i \in (-1)..MaxJudgeUnits}

\* dim_data for one dimension, as far as the scorer's totals read it.
DimData == {[k \in {"dimension_score"} |-> v] : v \in JudgeScores}

\* dimensions_data: a dimension the judge left out (here usefulness) is an absent key.
JudgeResponses ==
    { [d \in present |-> f[d]] : present \in {Range(Dimensions) \ {"usefulness"}, Range(Dimensions)},
                                  f \in [Range(Dimensions) -> DimData] }

get_grade(percentage) ==
    IF percentage >= 9000 THEN "A+"
    ELSE IF percentage >= 8000 THEN "A"
    ELSE IF percentage >= 7000 THEN "B"
    ELSE IF percentage >= 6000 THEN "C"
    ELSE "F"

calculate_v3_scores(dimensions_data) ==
    [dimension \in Range(Dimensions) |->
        LET dim_data == Get(dimensions_data, dimension, NoDict)
            passed == Get(dim_data, "passed", 0)
            total == Get(dim_data, "total", 1)
            dimension_score == Get(dim_data, "dimension_score", 0)
            \* thousandths times twice the weight: 1/2000 of a point
            weighted_score == dimension_score * Weight2(dimension)
        IN  [weight2 |-> Weight2(dimension),
             passed |-> passed,
             total |-> total,
             dimension_score |-> RoundDiv(dimension_score, 10),
             weighted_score |-> RoundDiv(weighted_score, 20)]]

RECURSIVE SumOver(_, _, _)
\* sum(s[field] for s in scores.values()), over the keys in seq
SumOver(scores, seq, field) ==
    IF seq = <<>> THEN 0
    ELSE Get(scores[Head(seq)], field, 0) + SumOver(scores, Tail(seq), field)

calculate_v3_summary(scores) ==
    LET weighted_total == SumOver(scores, Dimensions, "weighted_score")
        \* (weighted_total / MAX_SCORE) * 100, in hundredths of a percent
        percentage == (weighted_total * 100 * 100) \div MAX_SCORE
    IN  [total_assertions |-> SumOver(scores, Dimensions, "total"),
         total_passed |-> SumOver(scores, Dimensions, "passed"),
         weighted_total |-> RoundDiv(weighted_total, 1),
         max_score |-> MAX_SCORE,
         percentage |-> 10 * RoundDiv(percentage, 10),
         grade |-> get_grade(percentage)]

\* evaluate_images, from the parsed judge response on (lines 427-445)
evaluate_images(dimensions_data) ==
    LET calculated_scores == calculate_v3_scores(dimensions_data)
    IN  [dimensions |-> calculated_scores,
         summary |-> calculate_v3_summary(calculated_scores)]

InitScorer ==
    /\ judge \in JudgeResponses
    /\ evaluation = NoDict
    /\ IdleValidator /\ IdleGrader /\ IdleRanker /\ IdleSynth /\ IdleLedger /\ IdleLoader /\ IdleComparator

EvaluateImages ==
    /\ evaluation = NoDict
    /\ evaluation' = evaluate_images(judge)
    /\ UNCHANGED <<judge, notScorer>>

\* The next item's judge response arrives; it differs from the last in one dimension.
NextResponse ==
    /\ evaluation /= NoDict
    /\ \E d \in DOMAIN judge, v \in DimData : judge' = [judge EXCEPT ![d] = v]
    /\ evaluation' = NoDict
    /\ UNCHANGED notScorer

NextScorer ==
    \/ EvaluateImages
    \/ NextResponse

SpecScorer == InitScorer /\ [][NextScorer]_vars

\* GRADE_THRESHOLDS of config.py, in dict order, in hundredths of a percent
GRADE_THRESHOLDS == << <<"A+", 9000>>, <<"A", 8000>>, <<"B", 7000>>, <<"C", 6000>>, <<"F", 0>> >>

RECURSIVE config_get_grade_from(_, _)
\* the loop of config.get_grade from entry i on; "F" when no threshold is met
config_get_grade_from(percentage, i) ==
    IF i > Len(GRADE_THRESHOLDS) THEN "F"
    ELSE IF percentage >= GRADE_THRESHOLDS[i][2] THEN GRADE_THRESHOLDS[i][1]
    ELSE config_get_grade_from(percentage, i + 1)

config_get_grade(percentage) == config_get_grade_from(percentage, 1)

\* Faulty variant: breakpoints compared with > instead of >=.
eval_get_grade_strict(percentage) ==
    IF percentage > 9000 THEN "A+"
    ELSE IF percentage > 8000 THEN "A"
    ELSE IF percentage > 7000 THEN "B"
    ELSE IF percentage > 6000 THEN "C"
    ELSE "F"

\* get_grade of run_acrue_eval.py
eval_get_grade(percentage) ==
    IF percentage >= 9000 THEN "A+"
    ELSE IF percentage >= 8000 THEN "A"
    ELSE IF percentage >= 7000 THEN "B"
    ELSE IF percentage >= 6000 THEN "C"
    ELSE "F"

\* Percentages handed to get_grade: -PctBelow .. MaxPct hundredths of a percent.
PctBelow == 300
MaxPct == 10300

GradeImpls == {"config", "v3", "eval"}

GradeBy(impl, percentage) ==
    CASE impl = "config" -> config_get_grade(percentage)
      [] impl = "v3" -> get_grade(percentage)
      [] impl = "eval" -> eval_get_grade(percentage)

InitGrader ==
    /\ pct \in (-PctBelow)..MaxPct
    /\ grades = [i \in GradeImpls |-> "none"]
    /\ IdleValidator /\ IdleScorer /\ IdleRanker /\ IdleSynth /\ IdleLedger /\ IdleLoader /\ IdleComparator

\* One of the three get_grade functions is called on pct.
CallGetGrade ==
    /\ \E i \in GradeImpls :
          /\ grades[i] = "none"
          /\ grades' = [grades EXCEPT ![i] = GradeBy(i, pct)]
    /\ UNCHANGED <<pct, notGrader>>

NextGrader == CallGetGrade

SpecGrader == InitGrader /\ [][NextGrader]_vars

----------------------------------------------------------------------------
(* 4.3 Rank aggregator: benchmark_orchestrator.py compute_feasibility_rankings *)

\* Most records in acrue.json.
MaxItems == 3

\* The styles of a run (run_spec styles, IMAGE_PAIRS of run_acrue_evals.py)
RunStyles == {"Anime", "Pop Art", "Storybook"}

\* A JSON value that is a string or an object, with its type.
Str(text) == [type |-> "str", value |-> text]
Dict(d) == [type |-> "dict", value |-> d]

\* The scripts and formats that produce the item records:
\*   run_acrue_v3     evaluate_images: style, dimensions, summary (a dict)
\*   run_acrue_evals  the judge's JSON as parsed: style, total, percentage, grade
\*   item_evaluation  the judge's JSON in the ACRUE_PROMPT format of
\*                    run_dual_llm_pipeline.py: style, weighted_total,
\*                    percentage, grade, summary (a text)
\*   item_record      the same without the summary key
Producers == {"run_acrue_v3", "run_acrue_evals", "item_evaluation", "item_record"}

\* The judge scores every dimension v: the summary the scorer derives.
UniformResponse(v) == [d \in Range(Dimensions) |-> [k \in {"dimension_score"} |-> v]]
ItemSummary(v) == evaluate_images(UniformResponse(v)).summary

\* Judge levels of the items: 0 (F), 2.5 (50%, F), 3.75 (75%, B), 5.0 (100%, A+)
ItemLevels == {0, 2500, 3750, 5000}

ItemRecord(prod, style, v) ==
    LET sm == ItemSummary(v)
    IN  CASE prod = "run_acrue_v3" ->
               [k \in {"style", "summary"} |->
                   IF k = "style" THEN style ELSE Dict(sm)]
          [] prod = "run_acrue_evals" ->
               [k \in {"style", "total", "percentage", "grade"} |->
                   CASE k = "style" -> style
                     [] k = "total" -> sm.weighted_total
                     [] k = "percentage" -> sm.percentage
                     [] k = "grade" -> sm.grade]
          [] prod = "item_evaluation" ->
               [k \in {"style", "weighted_total", "percentage", "grade", "summary"} |->
                   CASE k = "style" -> style
                     [] k = "weighted_total" -> sm.weighted_total
                     [] k = "percentage" -> sm.percentage
                     [] k = "grade" -> sm.grade
                     [] k = "summary" -> Str("Brief assessment")]
          [] prod = "item_record" ->
               [k \in {"style", "weighted_total", "percentage", "grade"} |->
                   CASE k = "style" -> style
                     [] k = "weighted_total" -> sm.weighted_total
                     [] k = "percentage" -> sm.percentage
                     [] k = "grade" -> sm.grade]

\* The record appended when the judge call of one pairing fails
\* (run_acrue_evals.py main, run_acrue_v3.py evaluate_images): style and error.
ErrorRecord(style) ==
    [k \in {"style", "error"} |-> IF k = "style" THEN style ELSE "judge call failed"]

\* The record run_batch_evaluation appends when evaluate_images raises: error and config.
BatchErrorRecord(style) ==
    [k \in {"error", "config"} |-> IF k = "error" THEN "judge call failed" ELSE style]

\* Lines 247-262 for one record: the exception the lookups raise, or the scores.
ItemScores(result) ==
    IF "style" \notin DOMAIN result
    THEN [exc |-> "KeyError", style |-> "", weighted_total |-> 0, percentage |-> 0, grade |-> ""]
    ELSE LET summary == Get(result, "summary", Dict(NoDict))
         IN  IF summary.type /= "dict"
             THEN [exc |-> "AttributeError", style |-> result["style"],
                   weighted_total |-> 0, percentage |-> 0, grade |-> ""]
             ELSE [exc |-> "none",
                   style |-> result["style"],
                   weighted_total |-> Get(summary.value, "weighted_total", Get(result, "total", 0)),
                   percentage |-> Get(summary.value, "percentage", Get(result, "percentage", 0)),
                   grade |-> Get(summary.value, "grade", Get(result, "grade", "F"))]

RECURSIVE StyleOrder(_)
\* The keys of style_scores in insertion order: each style at its first record.
StyleOrder(scores) ==
    IF scores = <<>> THEN <<>>
    ELSE LET front == StyleOrder(SubSeq(scores, 1, Len(scores) - 1))
             style == scores[Len(scores)].style
         IN  IF style \in Range(front) THEN front ELSE Append(front, style)

RECURSIVE SumField(_, _)
SumField(seq, field) ==
    IF seq = <<>> THEN 0 ELSE Head(seq)[field] + SumField(Tail(seq), field)

grade_values(grade) ==
    CASE grade = "A+" -> 5
      [] grade = "A" -> 4
      [] grade = "B" -> 3
      [] grade = "C" -> 2
      [] OTHER -> 1

RECURSIVE SumGradeValues(_)
SumGradeValues(seq) ==
    IF seq = <<>> THEN 0 ELSE grade_values(Head(seq).grade) + SumGradeValues(Tail(seq))

\* Faulty variant: the average grade taken as the grade of the average percentage.
AvgGrade_of_percentage(scores) == get_grade(SumField(scores, "percentage") \div Len(scores))

\* Lines 270-282: avg_grade_val = sum / len against 4.5, 3.5, 2.5, 1.5
AvgGrade(scores) ==
    LET total == SumGradeValues(scores)
        n == Len(scores)
    IN  IF 2 * total >= 9 * n THEN "A+"
        ELSE IF 2 * total >= 7 * n THEN "A"
        ELSE IF 2 * total >= 5 * n THEN "B"
        ELSE IF 2 * total >= 3 * n THEN "C"
        ELSE "F"

\* Lines 266-301 for one style (the reasoning text is left out)
StyleAverages(style, scores) ==
    [style |-> style,
     avg_score |-> RoundDiv(SumField(scores, "weighted_total"), Len(scores)),
     avg_percentage |-> 10 * RoundDiv(SumField(scores, "percentage"), 10 * Len(scores)),
     avg_grade |-> AvgGrade(scores)]

RECURSIVE InsertBeforeTies(_, _)
\* Faulty variant: an entry goes in front of the entries with the same avg_score.
InsertBeforeTies(sorted, x) ==
    IF sorted = <<>> THEN <<x>>
    ELSE IF Head(sorted).avg_score > x.avg_score
         THEN <<Head(sorted)>> \o InsertBeforeTies(Tail(sorted), x)
         ELSE <<x>> \o sorted

RECURSIVE InsertDescending(_, _)
\* list.sort(key=avg_score, reverse=True) is stable: an entry goes behind
\* the entries with the same avg_score that precede it.
InsertDescending(sorted, x) ==
    IF sorted = <<>> THEN <<x>>
    ELSE IF Head(sorted).avg_score >= x.avg_score
         THEN <<Head(sorted)>> \o InsertDescending(Tail(sorted), x)
         ELSE <<x>> \o sorted

RECURSIVE SortDescending(_)
SortDescending(data) ==
    IF data = <<>> THEN <<>>
    ELSE InsertDescending(SortDescending(SubSeq(data, 1, Len(data) - 1)), data[Len(data)])

compute_feasibility_rankings(acrue_results) ==
    LET items == [i \in DOMAIN acrue_results |-> ItemScores(acrue_results[i])]
        bad == {i \in DOMAIN items : items[i].exc /= "none"}
    IN  IF bad /= {}
        THEN \* the grouping loop raises at the first record it cannot read
             LET first == CHOOSE i \in bad : \A j \in bad : i <= j
             IN  [exc |-> items[first].exc, rankings |-> <<>>]
        ELSE LET order == StyleOrder(items)
                 rankings_data ==
                     [i \in DOMAIN order |->
                         StyleAverages(order[i],
                                       SelectSeq(items, LAMBDA s : s.style = order[i]))]
                 sorted == SortDescending(rankings_data)
             IN  [exc |-> "none",
                  rankings |-> [i \in DOMAIN sorted |->
                                   [rank |-> i,
                                    style |-> sorted[i].style,
                                    avg_score |-> sorted[i].avg_score,
                                    avg_percentage |-> sorted[i].avg_percentage,
                                    avg_grade |-> sorted[i].avg_grade]]]

InitRanker ==
    /\ producer \in Producers
    /\ acrue = <<>>
    /\ gemini = NoDict
    /\ IdleValidator /\ IdleScorer /\ IdleGrader /\ IdleSynth /\ IdleLedger /\ IdleLoader /\ IdleComparator

\* The evaluation loop appends the record of one (style, image) pairing.
AppendEvaluation ==
    /\ gemini = NoDict
    /\ Len(acrue) < MaxItems
    /\ \E style \in RunStyles, v \in ItemLevels :
          acrue' = Append(acrue, ItemRecord(producer, style, v))
    /\ UNCHANGED <<producer, gemini, notRanker>>

\* The judge call of one pairing fails: the loop appends a placeholder.
AppendPlaceholder ==
    /\ gemini = NoDict
    /\ Len(acrue) < MaxItems
    /\ \E style \in RunStyles :
          \/ acrue' = Append(acrue, ErrorRecord(style))
          \/ /\ producer = "run_acrue_v3"
             /\ acrue' = Append(acrue, BatchErrorRecord(style))
    /\ UNCHANGED <<producer, gemini, notRanker>>

\* main(): command "compute-rankings"; gemini.json is written unless it raises.
ComputeRankingsCmd ==
    /\ gemini = NoDict
    /\ gemini' = compute_feasibility_rankings(acrue)
    /\ UNCHANGED <<producer, acrue, notRanker>>

NextRanker ==
    \/ AppendEvaluation
    \/ AppendPlaceholder
    \/ ComputeRankingsCmd

SpecRanker == InitRanker /\ [][NextRanker]_vars

----------------------------------------------------------------------------
(* 4.4 Dual-judge synthesizer: benchmark_orchestrator.py synthesize_results *)
(* Weights and final scores are integers in quarters (0.5 -> 2, 1.0 -> 4):  *)
(* the weights below and their products with a rank are exact floats.       *)

\* Longest rankings list a judge file carries (0 = the judge ranked nothing).
MaxRanked == 3

\* The styles a judge may rank: the three of the run spec and one outside it.
JudgeStyles == {StyleNames[i] : i \in 1..4}

\* spec["synthesis"]: 0.5/0.5, 0.75/0.25, 0.25/0.75 and 1.0/0.0
WeightPairs ==
    { [feasibility_weight |-> w[1], preference_weight |-> w[2]] :
        w \in {<<2, 2>>, <<3, 1>>, <<1, 3>>, <<4, 0>>} }

\* The run specs the synthesize command loads (3-candidate configuration).
SynthSpecs ==
    { [run_id |-> "run", styles |-> SubSeq(StyleNames, 1, 3), synthesis |-> w] :
        w \in WeightPairs }

\* A judge file: its rankings list ranks distinct styles 1..n in list order
\* (compute_feasibility_rankings writes gemini.json so; opus.json has the same form).
JudgeFiles ==
    { [rankings |-> [i \in DOMAIN order |-> [rank |-> i, style |-> order[i]]]] :
        order \in { o \in UNION {[1..n -> JudgeStyles] : n \in 0..MaxRanked} :
                      \A i, j \in DOMAIN o : o[i] = o[j] => i = j } }

\* {r["style"]: r["rank"] for r in rankings}: the last entry of a style wins.
RankMap(rankings) ==
    [s \in {rankings[i].style : i \in DOMAIN rankings} |->
        LET last == CHOOSE i \in DOMAIN rankings :
                        /\ rankings[i].style = s
                        /\ \A j \in DOMAIN rankings : rankings[j].style = s => j <= i
        IN  rankings[last].rank]

\* Faulty variant: a style missing from a rank map gets the middle rank 2.
RankOf_mid(ranks, style) == Get(ranks, style, 2)

\* ranks.get(style, 3)
RankOf(ranks, style) == Get(ranks, style, 3)

\* Faulty variant: only the styles some judge ranked get an entry.
FinalScores_ranked_only(spec, gemini_ranks, opus_ranks) ==
    LET ranked == SelectSeq(spec.styles,
                            LAMBDA s : s \in DOMAIN gemini_ranks \cup DOMAIN opus_ranks)
    IN  [i \in DOMAIN ranked |->
            [style |-> ranked[i],
             gemini_rank |-> RankOf(gemini_ranks, ranked[i]),
             opus_rank |-> RankOf(opus_ranks, ranked[i]),
             final_score |-> spec.synthesis.feasibility_weight * RankOf(gemini_ranks, ranked[i])
                             + spec.synthesis.preference_weight * RankOf(opus_ranks, ranked[i])]]

\* The loop over spec["styles"]: one entry per declared style, in spec order.
FinalScores(spec, gemini_ranks, opus_ranks) ==
    [i \in DOMAIN spec.styles |->
        LET style == spec.styles[i]
            g_rank == RankOf(gemini_ranks, style)
            o_rank == RankOf(opus_ranks, style)
        IN  [style |-> style,
             gemini_rank |-> g_rank,
             opus_rank |-> o_rank,
             final_score |-> spec.synthesis.feasibility_weight * g_rank
                             + spec.synthesis.preference_weight * o_rank]]

RECURSIVE InsertAscendingBeforeTies(_, _)
\* Faulty variant: an entry goes in front of the entries with the same final_score.
InsertAscendingBeforeTies(sorted, x) ==
    IF sorted = <<>> THEN <<x>>
    ELSE IF Head(sorted).final_score < x.final_score
         THEN <<Head(sorted)>> \o InsertAscendingBeforeTies(Tail(sorted), x)
         ELSE <<x>> \o sorted

RECURSIVE InsertAscending(_, _)
\* list.sort(key=final_score) is stable: an entry goes behind the entries
\* with the same final_score that precede it.
InsertAscending(sorted, x) ==
    IF sorted = <<>> THEN <<x>>
    ELSE IF Head(sorted).final_score <= x.final_score
         THEN <<Head(sorted)>> \o InsertAscending(Tail(sorted), x)
         ELSE <<x>> \o sorted

RECURSIVE SortAscending(_)
SortAscending(data) ==
    IF data = <<>> THEN <<>>
    ELSE InsertAscending(SortAscending(SubSeq(data, 1, Len(data) - 1)), data[Len(data)])

\* Faulty variant: the highest final_score first.
SortAscending_reversed(data) ==
    LET up == SortAscending(data)
    IN  [i \in DOMAIN up |-> up[Len(up) + 1 - i]]

SortByFinalScore(data) == SortAscending(data)

synthesize_results(spec, gemini_rankings, opus_rankings) ==
    LET gemini_ranks == RankMap(gemini_rankings.rankings)
        opus_ranks == RankMap(opus_rankings.rankings)
        sorted == SortByFinalScore(FinalScores(spec, gemini_ranks, opus_ranks))
        final_scores ==
            [i \in DOMAIN sorted |->
                [style |-> sorted[i].style,
                 gemini_rank |-> sorted[i].gemini_rank,
                 opus_rank |-> sorted[i].opus_rank,
                 final_score |-> sorted[i].final_score,
                 rank |-> i]]
    IN  IF final_scores = <<>>
        THEN [exc |-> "IndexError"]
        ELSE [exc |-> "none",
              winner |-> final_scores[1].style,
              rankings |-> final_scores,
              weights |-> [feasibility |-> spec.synthesis.feasibility_weight,
                           preference |-> spec.synthesis.preference_weight]]

InitSynth ==
    /\ synthSpec \in SynthSpecs
    /\ geminiRankings \in {f \in JudgeFiles : f.rankings = <<>>}
    /\ opusRankings \in {f \in JudgeFiles : f.rankings = <<>>}
    /\ synthesis = NoDict
    /\ IdleValidator /\ IdleScorer /\ IdleGrader /\ IdleRanker /\ IdleLedger /\ IdleLoader /\ IdleComparator

\* compute-rankings writes gemini.json of the run.
WriteGeminiJson ==
    /\ geminiRankings' \in JudgeFiles
    /\ synthesis' = NoDict
    /\ UNCHANGED <<synthSpec, opusRankings, notSynth>>

\* The preference judge's ranking is saved as opus.json of the run.
WriteOpusJson ==
    /\ opusRankings' \in JudgeFiles
    /\ synthesis' = NoDict
    /\ UNCHANGED <<synthSpec, geminiRankings, notSynth>>

\* The operator sets the synthesis weights in run_spec.json.
WriteSynthSpec ==
    /\ synthSpec' \in SynthSpecs
    /\ synthSpec' /= synthSpec
    /\ synthesis' = NoDict
    /\ UNCHANGED <<geminiRankings, opusRankings, notSynth>>

\* main(): command "synthesize"
SynthesizeCmd ==
    /\ synthesis' = synthesize_results(synthSpec, geminiRankings, opusRankings)
    /\ UNCHANGED <<synthSpec, geminiRankings, opusRankings, notSynth>>

NextSynth ==
    \/ WriteGeminiJson
    \/ WriteOpusJson
    \/ WriteSynthSpec
    \/ SynthesizeCmd

SpecSynth == InitSynth /\ [][NextSynth]_vars

----------------------------------------------------------------------------
(* 4.5 Run persistence ledger: benchmark_orchestrator.py persist_to_excel,  *)
(* create_benchmark_ledger.py.                                              *)
(* A worksheet is the sequence of its rows and a row the sequence of its    *)
(* cells; a cell holds a string, a number or nothing.  A workbook is the    *)
(* list of its sheet names with the worksheet of each name.                 *)

\* A cell value that is a number, and the empty cell (strings are Str).
Num(n) == [type |-> "num", num |-> n]
None == [type |-> "none"]

\* headers of _create_summary_headers
SummaryHeaders ==
    <<Str("run_id"), Str("timestamp"), Str("pipeline_version"), Str("acrue_version"),
      Str("styles"), Str("image_count"), Str("winner"), Str("gemini_top"), Str("opus_top"),
      Str("artifacts_path"), Str("vs_baseline"), Str("regressions"), Str("improvements")>>

\* headers of create_benchmark_ledger: the ten columns before the comparison columns
LegacyHeaders ==
    <<Str("run_id"), Str("timestamp"), Str("pipeline_version"), Str("acrue_version"),
      Str("styles"), Str("image_count"), Str("winner"), Str("gemini_top"), Str("opus_top"),
      Str("artifacts_path")>>

\* ws.cell(row, column).value
Cell(ws, row, column) ==
    IF row <= Len(ws) /\ column <= Len(ws[row]) THEN ws[row][column] ELSE None

\* ws.max_row: 1 for a worksheet without cells
MaxRow(ws) == IF ws = <<>> THEN 1 ELSE Len(ws)

\* ws.cell(row, column, value): rows and cells in between stay empty
SetCell(ws, row, column, value) ==
    LET rows == IF row > Len(ws) THEN row ELSE Len(ws)
        old == IF row <= Len(ws) THEN ws[row] ELSE <<>>
        cols == IF column > Len(old) THEN column ELSE Len(old)
        new == [c \in 1..cols |->
                   IF c = column THEN value
                   ELSE IF c <= Len(old) THEN old[c] ELSE None]
    IN  [r \in 1..rows |->
            IF r = row THEN new ELSE IF r <= Len(ws) THEN ws[r] ELSE <<>>]

RECURSIVE SetRow(_, _, _, _)
\* for col, value in enumerate(values, first): ws.cell(row, col, value)
SetRow(ws, row, first, values) ==
    IF values = <<>> THEN ws
    ELSE SetRow(SetCell(ws, row, first, Head(values)), row, first + 1, Tail(values))

\* Workbook(); ws = wb.active; ws.title = "Summary"; _create_summary_headers(ws)
NewWorkbook ==
    [sheetnames |-> <<"Summary">>,
     sheets |-> [n \in {"Summary"} |-> SetRow(<<>>, 1, 1, SummaryHeaders)]]

\* wb.create_sheet(title): appended as the last sheet
CreateSheet(wb, title, ws) ==
    [sheetnames |-> Append(wb.sheetnames, title),
     sheets |-> [n \in DOMAIN wb.sheets \cup {title} |-> IF n = title THEN ws ELSE wb.sheets[n]]]

\* wb.create_sheet(title, 0): inserted as the first sheet
CreateSheetFirst(wb, title, ws) ==
    [sheetnames |-> <<title>> \o wb.sheetnames,
     sheets |-> [n \in DOMAIN wb.sheets \cup {title} |-> IF n = title THEN ws ELSE wb.sheets[n]]]

\* del wb[title]
DeleteSheet(wb, title) ==
    [sheetnames |-> SelectSeq(wb.sheetnames, LAMBDA n : n /= title),
     sheets |-> [n \in DOMAIN wb.sheets \ {title} |-> wb.sheets[n]]]

\* wb[title] = ws, for a sheet the workbook has
PutSheet(wb, title, ws) ==
    [wb EXCEPT !.sheets = [n \in DOMAIN wb.sheets |-> IF n = title THEN ws ELSE wb.sheets[n]]]

\* The file states of EXCEL_PATH and of its backup.
NoFile == [state |-> "missing"]
NotXlsx(content) == [state |-> "corrupt", content |-> content]
Xlsx(wb) == [state |-> "xlsx", wb |-> wb]

\* _is_valid_xlsx: the file exists, is not OLE2 and load_workbook opens it
is_valid_xlsx(file) == file.state = "xlsx"

\* wb.save writes no value for a cell holding None or "", so that load_workbook
\* reads both back as empty; cells after the last value of a row are not kept.
RECURSIVE TrimRow(_)
TrimRow(row) ==
    IF row = <<>> THEN <<>>
    ELSE IF row[Len(row)] = None THEN TrimRow(SubSeq(row, 1, Len(row) - 1))
    ELSE row

SavedSheet(ws) ==
    [r \in DOMAIN ws |->
        TrimRow([c \in DOMAIN ws[r] |-> IF ws[r][c] = Str("") THEN None ELSE ws[r][c]])]

SavedWorkbook(wb) ==
    [sheetnames |-> wb.sheetnames,
     sheets |-> [n \in DOMAIN wb.sheets |-> SavedSheet(wb.sheets[n])]]

\* Most persists one history runs.
MaxPersists == 3

\* Distinct contents of a ledger file that is not a valid .xlsx.
MaxLegacy == 2

\* The orchestrator processes that may run the persist command.
Writers == {"p1", "p2"}

\* The run ids persisted: two ordinary ones and one that is the name of the
\* summary sheet (run_id is any string of the run spec).
LedgerRunIds == {"r1", "r2", "Summary"}

LedgerSpec(run_id) ==
    [run_id |-> run_id, pipeline_version |-> "1.1", acrue_version |-> "v3",
     styles |-> SubSeq(StyleNames, 1, 3), image_count |-> 3, output_dir |-> RunDir(run_id)]

\* A judge file that ranks the given styles in the given order.
JudgeFile(order) == [rankings |-> [i \in DOMAIN order |-> [rank |-> i, style |-> order[i]]]]

\* The synthesis.json / comparison.json pairs the persist command loads:
\* agreeing judges and no comparison, or a feasibility judge that ranked
\* nothing, a preference judge with the reverse order, and a comparison.
LedgerPayloads ==
    { [synthesis |-> synthesize_results(
                        [styles |-> SubSeq(StyleNames, 1, 3),
                         synthesis |-> [feasibility_weight |-> 2, preference_weight |-> 2]],
                        JudgeFile(SubSeq(StyleNames, 1, 3)),
                        JudgeFile(SubSeq(StyleNames, 1, 3))),
       comparison |-> NoDict],
      [synthesis |-> synthesize_results(
                        [styles |-> SubSeq(StyleNames, 1, 3),
                         synthesis |-> [feasibility_weight |-> 2, preference_weight |-> 2]],
                        JudgeFile(<<>>),
                        JudgeFile(<<"Storybook", "Pop Art", "Anime">>)),
       comparison |-> [baseline_run_id |-> "r1",
                       summary |-> [regressed |-> 1, improved |-> 2, unchanged |-> 0]]] }

PersistCalls ==
    { [spec |-> LedgerSpec(id), synthesis |-> p.synthesis, comparison |-> p.comparison] :
        id \in LedgerRunIds, p \in LedgerPayloads }

\* A summary row as the version before the comparison columns wrote it.
LegacyRow ==
    <<Str("r0"), Num(0), Str("1.0"), Str("v3"), Str("Anime, Pop Art, Storybook"),
      Num(3), Str("Anime"), Str("Anime"), Str("Anime"), Str(RunDir("r0"))>>

\* The ledger of create_benchmark_ledger, with the rows written to it since.
LegacyLedger(rows) ==
    Xlsx([sheetnames |-> <<"Summary">>,
          sheets |-> [n \in {"Summary"} |-> <<LegacyHeaders>> \o rows]])

\* Lines 511-516: the workbook with a Summary sheet.
WithSummarySheet(wb) ==
    IF "Summary" \in Range(wb.sheetnames) THEN wb
    ELSE CreateSheetFirst(wb, "Summary", SetRow(<<>>, 1, 1, SummaryHeaders))

\* Faulty variant: the comparison columns written one column too early.
MigrateHeader_early(summary_ws) ==
    IF Cell(summary_ws, 1, 11) = None
    THEN SetRow(summary_ws, 1, 10, SubSeq(SummaryHeaders, 11, 13))
    ELSE summary_ws

\* Lines 518-522: header migration
MigrateHeader(summary_ws) ==
    IF Cell(summary_ws, 1, 11) = None
    THEN SetRow(summary_ws, 1, 11, SubSeq(SummaryHeaders, 11, 13))
    ELSE summary_ws

\* Lines 502-522: load or create the workbook, get or create the summary
\* sheet, migrate its header.  file is EXCEL_PATH after the corruption check.
OpenWorkbook(file) ==
    LET wb == WithSummarySheet(IF file.state = "xlsx" THEN file.wb ELSE NewWorkbook)
    IN  PutSheet(wb, "Summary", MigrateHeader(wb.sheets["Summary"]))

RECURSIVE JoinStyles(_)
\* ", ".join(styles)
JoinStyles(styles) ==
    IF styles = <<>> THEN ""
    ELSE IF Len(styles) = 1 THEN styles[1]
    ELSE styles[1] \o ", " \o JoinStyles(Tail(styles))

RECURSIVE TopOf(_, _, _)
\* Lines 526-534: the style of the last entry with rank 1 in one source, or None
TopOf(rankings, field, top) ==
    IF rankings = <<>> THEN top
    ELSE TopOf(Tail(rankings), field,
               IF Head(rankings)[field] = 1 THEN Str(Head(rankings).style) ELSE top)

\* Lines 536-559: summary_data; now stands for datetime.now().isoformat()
SummaryData(spec, synth, comparison, now) ==
    LET compared == comparison /= NoDict /\ "summary" \in DOMAIN comparison
    IN  <<Str(spec.run_id), Num(now), Str(spec.pipeline_version), Str(spec.acrue_version),
          Str(JoinStyles(spec.styles)), Num(spec.image_count), Str(synth.winner),
          TopOf(synth.rankings, "gemini_rank", None),
          TopOf(synth.rankings, "opus_rank", None),
          Str(spec.output_dir),
          Str(IF compared THEN Get(comparison, "baseline_run_id", "") ELSE ""),
          Num(IF compared THEN Get(comparison.summary, "regressed", 0) ELSE 0),
          Num(IF compared THEN Get(comparison.summary, "improved", 0) ELSE 0)>>

\* Lines 524-525, 561-562: the row goes to max_row + 1
AppendSummaryRow(summary_ws, summary_data) ==
    SetRow(summary_ws, MaxRow(summary_ws) + 1, 1, summary_data)

\* Lines 570-588: the detail sheet of a run
DetailSheet(run_id, synth) ==
    <<  <<Str("Benchmark Run: " \o run_id)>>,
        <<Str("Winner: " \o synth.winner)>>,
        <<>>,
        <<Str("Final Rankings")>>,
        <<Str("Rank"), Str("Style"), Str("Gemini Rank"), Str("Opus Rank"), Str("Final Score")>> >>
    \o [i \in DOMAIN synth.rankings |->
           <<Num(synth.rankings[i].rank), Str(synth.rankings[i].style),
             Num(synth.rankings[i].gemini_rank), Num(synth.rankings[i].opus_rank),
             Num(synth.rankings[i].final_score)>>]

\* Lines 564-568: the detail sheet replaces the sheet named run_id, if any
UpsertDetailSheet(wb, run_id, run_ws) ==
    CreateSheet(IF run_id \in Range(wb.sheetnames) THEN DeleteSheet(wb, run_id) ELSE wb,
                run_id, run_ws)

\* Lines 524-591 on the open workbook: what wb.save writes to EXCEL_PATH
PersistedWorkbook(wb, call, now) ==
    LET summary_ws == AppendSummaryRow(wb.sheets["Summary"],
                                       SummaryData(call.spec, call.synthesis, call.comparison, now))
        with_row == PutSheet(wb, "Summary", summary_ws)
    IN  SavedWorkbook(UpsertDetailSheet(with_row, call.spec.run_id,
                                        DetailSheet(call.spec.run_id, call.synthesis)))

IdleWriter == [pc |-> "idle", wb |-> NoDict, loaded |-> NoFile, call |-> NoDict, now |-> 0]

InitLedger ==
    /\ excel \in {NoFile, LegacyLedger(<<>>), LegacyLedger(<<LegacyRow>>)}
    /\ backup = NoFile
    /\ writers = [w \in Writers |-> IdleWriter]
    /\ clock = 0
    /\ found = {}
    /\ IdleValidator /\ IdleScorer /\ IdleGrader /\ IdleRanker /\ IdleSynth /\ IdleLoader /\ IdleComparator

\* persist_to_excel, lines 488-522, in process w: a file that is not a valid
\* .xlsx is copied to the backup path and unlinked; then the workbook is
\* loaded or created and its summary header migrated.
PersistOpen(w) ==
    /\ writers[w].pc = "idle"
    /\ clock < MaxPersists
    /\ \E call \in PersistCalls :
          LET corrupted == excel.state /= "missing" /\ ~is_valid_xlsx(excel)
              file == IF corrupted THEN NoFile ELSE excel
          IN  /\ backup' = IF corrupted THEN excel ELSE backup
              /\ found' = IF corrupted THEN found \cup {excel.content} ELSE found
              /\ excel' = file
              /\ clock' = clock + 1
              /\ writers' = [writers EXCEPT ![w] =
                                [pc |-> "open", wb |-> OpenWorkbook(file), loaded |-> file,
                                 call |-> call, now |-> clock + 1]]
    /\ UNCHANGED notLedger

\* persist_to_excel, lines 524-592, in process w: the summary row, the
\* detail sheet and wb.save(EXCEL_PATH).
PersistSave(w) ==
    /\ writers[w].pc = "open"
    /\ excel' = Xlsx(PersistedWorkbook(writers[w].wb, writers[w].call, writers[w].now))
    /\ writers' = [writers EXCEPT ![w] = IdleWriter]
    /\ UNCHANGED <<backup, clock, found, notLedger>>

\* The ledger is saved from a spreadsheet program in the old .xls format
\* under the same name (the case lines 494-500 handle).
CorruptLedger ==
    /\ \E content \in 1..MaxLegacy :
          /\ content \notin found
          /\ excel /= NotXlsx(content)
          /\ excel' = NotXlsx(content)
    /\ UNCHANGED <<backup, writers, clock, found, notLedger>>

\* One orchestrator process: persists run one after the other.
NextLedger ==
    \/ PersistOpen("p1")
    \/ PersistSave("p1")
    \/ CorruptLedger

SpecLedger == InitLedger /\ [][NextLedger]_vars

\* Two runs persist from two processes; nothing in persist_to_excel orders them.
NextLedgerRace ==
    \/ \E w \in Writers : PersistOpen(w)
    \/ \E w \in Writers : PersistSave(w)
    \/ CorruptLedger

SpecLedgerRace == InitLedger /\ [][NextLedgerRace]_vars

----------------------------------------------------------------------------
(* 4.6 Regression comparator, data loading: compare_runs.py load_run_results *)

\* Longest acrue.json the loader is run on.
MaxEntries == 2

\* The styles of the run directory's files.
LoaderStyles == {"Anime", "Pop Art"}

\* The per-style fields load_run_results takes from gemini.json or acrue.json.
AggregateFields == {"avg_score", "avg_percentage", "avg_grade"}

\* One entry of gemini.json's rankings: style and rank, and of the three
\* aggregate fields those the writer of the file put in.
GeminiEntry(style, rank, fields) ==
    [k \in {"style", "rank"} \cup fields |->
        CASE k = "style" -> style
          [] k = "rank" -> rank
          [] k = "avg_score" -> 2000
          [] k = "avg_percentage" -> 8000
          [] k = "avg_grade" -> "A"]

GeminiJsons ==
    { [rankings |-> [i \in DOMAIN order |-> GeminiEntry(order[i], i, fields)]] :
        order \in { o \in UNION {[1..n -> LoaderStyles] : n \in 0..Cardinality(LoaderStyles)} :
                      \A i, j \in DOMAIN o : o[i] = o[j] => i = j },
        fields \in SUBSET AggregateFields }

\* synthesis.json as the synthesize command writes it
SynthesisJsons == {p.synthesis : p \in LedgerPayloads}

\* The entries of acrue.json: evaluate_images records (summary a dict) at
\* 100% and 50%, ItemEvaluation records (summary a text) at 100%, and the
\* two placeholders of a failed judge call.
AcrueEntries ==
    {ItemRecord("run_acrue_v3", s, v) : s \in LoaderStyles, v \in {2500, 5000}}
    \cup {ItemRecord("item_evaluation", s, 5000) : s \in LoaderStyles}
    \cup {ErrorRecord("Anime"), BatchErrorRecord("Anime")}

Absent == [exists |-> FALSE, data |-> NoDict]
Present(data) == [exists |-> TRUE, data |-> data]

\* dict.update and dict.setdefault
Update(d, e) == [k \in DOMAIN d \cup DOMAIN e |-> IF k \in DOMAIN e THEN e[k] ELSE d[k]]
SetDefault(d, k, v) == IF k \in DOMAIN d THEN d ELSE Update(d, [x \in {k} |-> v])

\* styles[style] = value
PutStyle(styles, style, value) ==
    [s \in DOMAIN styles \cup {style} |-> IF s = style THEN value ELSE styles[s]]

RECURSIVE SynthesisLoop(_, _)
\* Lines 44-49
SynthesisLoop(styles, rankings) ==
    IF rankings = <<>> THEN styles
    ELSE LET r == Head(rankings)
         IN  SynthesisLoop(PutStyle(styles, r.style,
                                    [final_score |-> r.final_score,
                                     gemini_rank |-> r.gemini_rank,
                                     opus_rank |-> r.opus_rank]),
                           Tail(rankings))

RECURSIVE GeminiLoop(_, _)
\* Lines 54-62: every listed style gets the three fields, a missing one as 0 or "N/A"
GeminiLoop(styles, rankings) ==
    IF rankings = <<>> THEN styles
    ELSE LET r == Head(rankings)
             style == r["style"]
         IN  GeminiLoop(PutStyle(styles, style,
                                 Update(Get(styles, style, NoDict),
                                        [avg_score |-> Get(r, "avg_score", 0),
                                         avg_percentage |-> Get(r, "avg_percentage", 0),
                                         avg_grade |-> Get(r, "avg_grade", "N/A")])),
                        Tail(rankings))

\* Lines 72-89 for one entry of acrue.json; an entry without a style is skipped
AcrueScores(entry) ==
    LET style == Get(entry, "style", "")
        summary == Get(entry, "summary", Dict(NoDict))
    IN  IF summary.type = "dict"
        THEN [style |-> style,
              percentage |-> Get(summary.value, "percentage", 0),
              weighted_total |-> Get(summary.value, "weighted_total", 0),
              grade |-> Get(summary.value, "grade", "N/A")]
        ELSE [style |-> style,
              percentage |-> Get(entry, "percentage", 0),
              weighted_total |-> Get(entry, "weighted_total", 0),
              grade |-> Get(entry, "grade", "N/A")]

\* Lines 94-98: the aggregate of one style's scores
AcrueAverages(scores) ==
    [avg_score |-> RoundDiv(SumField(scores, "weighted_total"), Len(scores)),
     avg_percentage |-> 10 * RoundDiv(SumField(scores, "percentage"), 10 * Len(scores)),
     avg_grade |-> config_get_grade(SumField(scores, "percentage") \div Len(scores))]

RECURSIVE AcrueLoop(_, _, _)
\* Lines 91-98, over the styles of style_scores in insertion order
AcrueLoop(styles, order, all_scores) ==
    IF order = <<>> THEN styles
    ELSE LET style == Head(order)
             avg == AcrueAverages(SelectSeq(all_scores, LAMBDA s : s.style = style))
             d0 == Get(styles, style, NoDict)
             d1 == SetDefault(d0, "avg_score", avg.avg_score)
             d2 == SetDefault(d1, "avg_percentage", avg.avg_percentage)
             d3 == SetDefault(d2, "avg_grade", avg.avg_grade)
         IN  AcrueLoop(PutStyle(styles, style, d3), Tail(order), all_scores)

load_run_results(files) ==
    LET s1 == IF files.synthesis.exists
              THEN SynthesisLoop(NoDict, Get(files.synthesis.data, "rankings", <<>>))
              ELSE NoDict
        s2 == IF files.gemini.exists
              THEN GeminiLoop(s1, Get(files.gemini.data, "rankings", <<>>))
              ELSE s1
        all_scores == SelectSeq([i \in DOMAIN files.acrue.data |-> AcrueScores(files.acrue.data[i])],
                                LAMBDA s : s.style /= "")
        s3 == IF files.acrue.exists
              THEN AcrueLoop(s2, StyleOrder(all_scores), all_scores)
              ELSE s2
    IN  [styles |-> s3]

InitLoader ==
    /\ runFiles = [synthesis |-> Absent, gemini |-> Absent, acrue |-> Absent]
    /\ runResults = NoDict
    /\ IdleValidator /\ IdleScorer /\ IdleGrader /\ IdleRanker /\ IdleSynth /\ IdleLedger /\ IdleComparator

\* The synthesize command writes synthesis.json of the run.
WriteSynthesisFile ==
    /\ \E data \in SynthesisJsons :
          runFiles' = [runFiles EXCEPT !.synthesis = Present(data)]
    /\ runFiles' /= runFiles
    /\ runResults' = NoDict
    /\ UNCHANGED notLoader

\* gemini.json of the run is written (by compute-rankings or by the judge step).
WriteGeminiFile ==
    /\ \E data \in GeminiJsons :
          runFiles' = [runFiles EXCEPT !.gemini = Present(data)]
    /\ runFiles' /= runFiles
    /\ runResults' = NoDict
    /\ UNCHANGED notLoader

\* The evaluation loop adds one record to acrue.json of the run.
AppendAcrueEntry ==
    /\ Len(runFiles.acrue.data) < MaxEntries
    /\ \E entry \in AcrueEntries :
          runFiles' = [runFiles EXCEPT
                          !.acrue = Present(IF runFiles.acrue.exists
                                            THEN Append(runFiles.acrue.data, entry)
                                            ELSE <<entry>>)]
    /\ runResults' = NoDict
    /\ UNCHANGED notLoader

\* compare_runs loads the run.
LoadRunCmd ==
    /\ runResults' = load_run_results(runFiles)
    /\ UNCHANGED <<runFiles, notLoader>>

NextLoader ==
    \/ WriteSynthesisFile
    \/ WriteGeminiFile
    \/ AppendAcrueEntry
    \/ LoadRunCmd

SpecLoader == InitLoader /\ [][NextLoader]_vars

----------------------------------------------------------------------------
(* 4.6 Regression comparator: compare_runs.py compare_runs,                 *)
(* find_latest_prior_run, save_comparison and main; run_comparison and the  *)
(* synthesize and compare commands of benchmark_orchestrator.py.            *)
(* No operation of this component reads comparison.json, comparison.md or   *)
(* report.md back: a run directory keeps whether each was written (and      *)
(* whether report.md has the comparison section), and the comparison itself *)
(* is in cmpOut.                                                            *)

\* The names of the run directories in RUNS_DIR.
RunNames == {"r1", "r10", "r2"}

\* The code points of the strings sorted() compares.
CodePoints(text) ==
    CASE text = "r1" -> <<114, 49>>
      [] text = "r10" -> <<114, 49, 48>>
      [] text = "r2" -> <<114, 50>>
      [] text = "Anime" -> <<65, 110, 105, 109, 101>>
      [] text = "Pop Art" -> <<80, 111, 112, 32, 65, 114, 116>>
      [] text = "Storybook" -> <<83, 116, 111, 114, 121, 98, 111, 111, 107>>

RECURSIVE SeqLess(_, _)
\* Python's < on two strings: the first differing code point decides, a
\* proper prefix is smaller.
SeqLess(s, t) ==
    IF t = <<>> THEN FALSE
    ELSE IF s = <<>> THEN TRUE
    ELSE IF Head(s) /= Head(t) THEN Head(s) < Head(t)
    ELSE SeqLess(Tail(s), Tail(t))

StrLess(a, b) == SeqLess(CodePoints(a), CodePoints(b))

RECURSIVE sorted(_)
\* sorted() of a collection of distinct strings
sorted(names) ==
    IF names = {} THEN <<>>
    ELSE LET least == CHOOSE n \in names : \A o \in names \ {n} : StrLess(n, o)
         IN  <<least>> \o sorted(names \ {least})

\* An entry of RUNS_DIR: nothing, or a run directory with its files.
EmptyDir ==
    [kind |-> "dir", synthesis |-> Absent, gemini |-> Absent, acrue |-> Absent,
     opus |-> Absent, comparison |-> FALSE, comparison_md |-> FALSE, report |-> "none"]
NoEntry == [EmptyDir EXCEPT !.kind = "none"]

NoRunsDir == [exists |-> FALSE, entries |-> [n \in RunNames |-> NoEntry]]

\* Path.mkdir(parents=True, exist_ok=True) of RUNS_DIR / name
Mkdir(root, name) ==
    [exists |-> TRUE,
     entries |-> [root.entries EXCEPT ![name] = IF @.kind = "none" THEN EmptyDir ELSE @]]

\* The directory name of an output_dir under RUNS_DIR.
DirName(path) == CHOOSE n \in RunNames : RunDir(n) = path

\* The percentages a gemini.json of the comparator carries.
PctLevels == {7500, 8000, 8030, 8047, 8200}

\* gemini.json: one ranking entry per listed style, with its averages.
ScoreEntry(style, rank, p) ==
    [style |-> style, rank |-> rank, avg_score |-> p \div 4,
     avg_percentage |-> p, avg_grade |-> config_get_grade(p)]

\* gemini.json over the styles Anime and Pop Art: a style is left out (level
\* 0) or listed at one of the percentages.
ScoreSheet(levels) ==
    [rankings |->
        LET listed == SelectSeq(<<"Anime", "Pop Art">>, LAMBDA s : levels[s] /= 0)
        IN  [i \in DOMAIN listed |-> ScoreEntry(listed[i], i, levels[listed[i]])]]

\* The levels a gemini.json file was written from (all 0 for a missing file).
LevelsOf(file) ==
    [s \in LoaderStyles |->
        IF file.exists /\ \E i \in DOMAIN file.data.rankings : file.data.rankings[i].style = s
        THEN LET i == CHOOSE i \in DOMAIN file.data.rankings : file.data.rankings[i].style = s
             IN  file.data.rankings[i].avg_percentage
        ELSE 0]

\* The files a judging step can leave in place of a gemini.json: it rescored
\* at most one style.
NextSheets(file) ==
    {ScoreSheet(levels) : levels \in {l \in [LoaderStyles -> PctLevels \cup {0}] :
        Cardinality({s \in LoaderStyles : l[s] /= LevelsOf(file)[s]}) <= 1}}

\* load_run_results(run_id), lines 29-32 and on
LoadRun(root, run_id) ==
    LET run_dir == root.entries[run_id]
    IN  IF run_dir.kind = "none" THEN [exc |-> "FileNotFoundError"]
        ELSE [exc |-> "none", run_id |-> run_id, styles |-> load_run_results(run_dir).styles]

\* Lines 138-146
DeltaStatus(delta_pct) ==
    IF delta_pct < 50 /\ delta_pct > -50 THEN "unchanged"
    ELSE IF delta_pct > 0 THEN "improved"
    ELSE "REGRESSION"

Bump(status, counted) == IF status = counted THEN 1 ELSE 0

\* Lines 127-159 for one style: its delta entry
StyleDelta(style, current, baseline) ==
    LET cur == Get(current.styles, style, NoDict)
        base == Get(baseline.styles, style, NoDict)
        cur_pct == Get(cur, "avg_percentage", 0)
        base_pct == Get(base, "avg_percentage", 0)
        cur_score == Get(cur, "avg_score", 0)
        base_score == Get(base, "avg_score", 0)
        delta_pct == 10 * RoundDiv(cur_pct - base_pct, 10)
        delta_score == RoundDiv(cur_score - base_score, 1)
    IN  [style |-> style,
         current_pct |-> cur_pct,
         baseline_pct |-> base_pct,
         delta_pct |-> delta_pct,
         current_score |-> cur_score,
         baseline_score |-> base_score,
         delta_score |-> delta_score,
         current_grade |-> Get(cur, "avg_grade", "N/A"),
         baseline_grade |-> Get(base, "avg_grade", "N/A"),
         status |-> DeltaStatus(delta_pct)]

RECURSIVE CompareLoop(_, _, _)
\* Lines 121-159: the loop over all_styles appends one delta entry per style
\* and adds one to the counter of its status.  (A value used several times
\* is bound once, as the one element of a set.)
CompareLoop(all_styles, current, baseline) ==
    IF all_styles = <<>>
    THEN [style_deltas |-> <<>>, improved |-> 0, regressed |-> 0, unchanged |-> 0]
    ELSE CHOOSE after \in
             { [style_deltas |-> Append(acc.style_deltas, delta),
                improved |-> acc.improved + Bump(delta.status, "improved"),
                regressed |-> acc.regressed + Bump(delta.status, "REGRESSION"),
                unchanged |-> acc.unchanged + Bump(delta.status, "unchanged")] :
                 acc \in {CompareLoop(SubSeq(all_styles, 1, Len(all_styles) - 1),
                                       current, baseline)},
                 delta \in {StyleDelta(all_styles[Len(all_styles)], current, baseline)} } : TRUE

\* Faulty variant: an improvement outranks a regression.
Verdict_improved_first(improved, regressed) ==
    IF improved > 0 THEN "IMPROVED"
    ELSE IF regressed > 0 THEN "REGRESSION_DETECTED"
    ELSE "UNCHANGED"

\* Lines 161-166
Verdict(improved, regressed) ==
    IF regressed > 0 THEN "REGRESSION_DETECTED"
    ELSE IF improved > 0 THEN "IMPROVED"
    ELSE "UNCHANGED"

\* Lines 119-179 on the two loaded runs
Comparison(current, baseline) ==
    CHOOSE comparison \in
        { [exc |-> "none",
           current_run_id |-> current.run_id,
           baseline_run_id |-> baseline.run_id,
           styles |-> done.style_deltas,
           summary |-> [improved |-> done.improved,
                        regressed |-> done.regressed,
                        unchanged |-> done.unchanged,
                        overall_verdict |-> Verdict(done.improved, done.regressed)]] :
            done \in {CompareLoop(sorted(DOMAIN current.styles \cup DOMAIN baseline.styles),
                                   current, baseline)} } : TRUE

\* compare_runs(current_id, baseline_id): the exception it raises, or the
\* comparison (without its timestamp)
compare_runs(root, current_id, baseline_id) ==
    CHOOSE result \in
        { IF current.exc /= "none" THEN [exc |-> current.exc]
          ELSE IF baseline.exc /= "none" THEN [exc |-> baseline.exc]
          ELSE Comparison(current, baseline) :
            current \in {LoadRun(root, current_id)},
            baseline \in {LoadRun(root, baseline_id)} } : TRUE

\* save_comparison(comparison, output_dir): the directory is made if it is
\* not there and comparison.json is written into it
save_comparison(root, name) ==
    LET made == Mkdir(root, name)
    IN  [made EXCEPT !.entries[name].comparison = TRUE]

\* A falsy baseline id: None or the empty string
Falsy(v) == v = None \/ v = Str("")

\* Faulty variant: the current run is not left out.
find_latest_prior_run_with_current(root, current_run_id) ==
    LET run_dirs == sorted({n \in RunNames : root.entries[n].kind = "dir"})
    IN  IF ~root.exists THEN None
        ELSE IF run_dirs /= <<>> THEN Str(run_dirs[Len(run_dirs)]) ELSE None

find_latest_prior_run(root, current_run_id) ==
    LET run_dirs == sorted({n \in RunNames : root.entries[n].kind = "dir"
                                             /\ n /= current_run_id})
    IN  IF ~root.exists THEN None
        ELSE IF run_dirs /= <<>> THEN Str(run_dirs[Len(run_dirs)]) ELSE None

\* Faulty variant: the latest prior run is looked up first and wins over the
\* baseline the run spec names.
ResolveBaseline_auto_first(root, spec) ==
    LET latest == find_latest_prior_run(root, spec["run_id"])
        explicit == IF "baseline_run_id" \in DOMAIN spec
                    THEN Str(spec["baseline_run_id"]) ELSE None
    IN  [auto |-> TRUE, id |-> IF Falsy(latest) THEN explicit ELSE latest]

\* Lines 603-606: spec.get("baseline_run_id"), else find_latest_prior_run
ResolveBaseline(root, spec) ==
    LET explicit == IF "baseline_run_id" \in DOMAIN spec
                    THEN Str(spec["baseline_run_id"]) ELSE None
    IN  IF Falsy(explicit)
        THEN [auto |-> TRUE, id |-> find_latest_prior_run(root, spec["run_id"])]
        ELSE [auto |-> FALSE, id |-> explicit]

\* Faulty variant: a failure of compare_runs is not caught.
CatchException_reraise(exc) == exc

\* Lines 613-620: try ... except Exception: return None
CatchException(exc) == "none"

\* Lines 612-620 with the baseline settled
CompareWithBaseline(root, run_id, resolved, out) ==
    CHOOSE result \in
        { IF comparison.exc /= "none"
          THEN [exc |-> CatchException(comparison.exc), auto |-> resolved.auto,
                baseline |-> resolved.id, compared |-> TRUE, value |-> None, root |-> root]
          ELSE [exc |-> "none", auto |-> resolved.auto, baseline |-> resolved.id,
                compared |-> TRUE, value |-> comparison,
                root |-> save_comparison(root, out)] :
            comparison \in {compare_runs(root, run_id, resolved.id.value)} } : TRUE

\* run_comparison(spec, output_dir): what it returns (value), whether
\* find_latest_prior_run was consulted (auto), the baseline it settled on,
\* whether compare_runs was called, and RUNS_DIR afterwards.
run_comparison(root, spec, out) ==
    CHOOSE result \in
        { IF Falsy(resolved.id)
          THEN [exc |-> "none", auto |-> resolved.auto, baseline |-> resolved.id,
                compared |-> FALSE, value |-> None, root |-> root]
          ELSE CompareWithBaseline(root, spec["run_id"], resolved, out) :
            resolved \in {ResolveBaseline(root, spec)} } : TRUE

\* generate_report, lines 407-431: which report it builds
generate_report(comparison) ==
    IF comparison /= None /\ "styles" \in DOMAIN comparison THEN "comparison" ELSE "plain"

\* The run specs of the comparing commands: the run id, the output directory
\* under RUNS_DIR (r1 or r2: its name need not be the run id) and,
\* optionally, the baseline (empty, or run r1).
CmpSpecs ==
    { [k \in {"run_id", "output_dir", "styles", "synthesis"} \cup opt |->
          CASE k = "run_id" -> id
            [] k = "output_dir" -> RunDir(out)
            [] k = "styles" -> SubSeq(StyleNames, 1, 3)
            [] k = "synthesis" -> [feasibility_weight |-> 2, preference_weight |-> 2]
            [] k = "baseline_run_id" -> base] :
        id \in RunNames, out \in RunIds,
        opt \in SUBSET {"baseline_run_id"}, base \in {"", "r1"} }

\* The judge files of a run in the baseline-resolution specification.
BaseSheet == ScoreSheet([s \in LoaderStyles |-> IF s = "Anime" THEN 8000 ELSE 7500])
OpusFile == JudgeFile(<<"Pop Art", "Anime", "Storybook">>)

NoCmpOut ==
    [cmd |-> "none", exc |-> "none", called |-> FALSE, auto |-> FALSE, baseline |-> None,
     compared |-> FALSE, comparison |-> None, wrote |-> {}]

InitComparator ==
    /\ runsDir = NoRunsDir
    /\ cmpOut = NoCmpOut
    /\ IdleValidator /\ IdleScorer /\ IdleGrader /\ IdleRanker /\ IdleSynth /\ IdleLedger /\ IdleLoader

\* init_output_dir makes the run directory (and RUNS_DIR above it).
MakeRunDir(name) ==
    /\ runsDir.entries[name].kind = "none"
    /\ runsDir' = Mkdir(runsDir, name)
    /\ cmpOut' = NoCmpOut
    /\ UNCHANGED <<cmpSpec, notComparator>>

\* The judging steps write gemini.json and opus.json of a run.
WriteJudgeFiles(name, sheet) ==
    /\ runsDir.entries[name].kind = "dir"
    /\ runsDir' = [runsDir EXCEPT !.entries[name].gemini = Present(sheet),
                                  !.entries[name].opus = Present(OpusFile)]
    /\ runsDir' /= runsDir
    /\ cmpOut' = NoCmpOut
    /\ UNCHANGED <<cmpSpec, notComparator>>

\* The operator edits one key of run_spec.json.
WriteCmpSpec ==
    /\ cmpSpec' \in CmpSpecs
    /\ Cardinality({k \in DOMAIN cmpSpec \cup DOMAIN cmpSpec' :
                        \/ k \notin DOMAIN cmpSpec
                        \/ k \notin DOMAIN cmpSpec'
                        \/ cmpSpec[k] /= cmpSpec'[k]}) = 1
    /\ cmpOut' = NoCmpOut
    /\ UNCHANGED <<runsDir, notComparator>>

\* compare_runs.py main(): --current and --baseline, no --output
CompareRunsMain(current_id, baseline_id) ==
    /\ \E comparison \in {compare_runs(runsDir, current_id, baseline_id)} :
          IF comparison.exc /= "none"
          THEN /\ cmpOut' = [NoCmpOut EXCEPT !.cmd = "compare_runs", !.exc = comparison.exc,
                                             !.baseline = Str(baseline_id), !.compared = TRUE]
               /\ UNCHANGED runsDir
          ELSE /\ cmpOut' = [NoCmpOut EXCEPT !.cmd = "compare_runs",
                                             !.baseline = Str(baseline_id), !.compared = TRUE,
                                             !.comparison = comparison,
                                             !.wrote = {"comparison.json", "comparison.md"}]
               /\ runsDir' = [save_comparison(runsDir, current_id) EXCEPT
                                 !.entries[current_id].comparison_md = TRUE]
    /\ UNCHANGED <<cmpSpec, notComparator>>

\* What run_comparison leaves in cmpOut.
Compared(cmd, rc) ==
    [cmd |-> cmd, exc |-> rc.exc, called |-> TRUE, auto |-> rc.auto, baseline |-> rc.baseline,
     compared |-> rc.compared, comparison |-> rc.value,
     wrote |-> IF rc.value /= None THEN {"comparison.json"} ELSE {}]

\* Lines 651-662 of the synthesize command, the judge files read
SynthesizeAndCompare(out) ==
    \E synth \in {synthesize_results(cmpSpec, runsDir.entries[out].gemini.data,
                                      runsDir.entries[out].opus.data)},
       rc \in {run_comparison(runsDir, cmpSpec, out)} :
        IF rc.exc /= "none"
        THEN /\ cmpOut' = Compared("synthesize", rc)
             /\ runsDir' = rc.root
        ELSE /\ cmpOut' = [Compared("synthesize", rc) EXCEPT
                              !.wrote = @ \cup {"synthesis.json", "report.md"}]
             /\ runsDir' = [rc.root EXCEPT
                               !.entries[out].synthesis =
                                   Present([winner |-> synth.winner,
                                            rankings |-> synth.rankings,
                                            weights |-> synth.weights]),
                               !.entries[out].report = generate_report(rc.value)]

\* main(): command "synthesize"
SynthesizeRun ==
    LET out == DirName(cmpSpec["output_dir"])
        output_dir == runsDir.entries[out]
    IN  /\ IF output_dir.kind /= "dir" \/ ~output_dir.gemini.exists \/ ~output_dir.opus.exists
           THEN /\ cmpOut' = [NoCmpOut EXCEPT !.cmd = "synthesize", !.exc = "FileNotFoundError"]
                /\ UNCHANGED runsDir
           ELSE SynthesizeAndCompare(out)
        /\ UNCHANGED <<cmpSpec, notComparator>>

\* main(): command "compare"
CompareRun ==
    /\ \E rc \in {run_comparison(runsDir, cmpSpec, DirName(cmpSpec["output_dir"]))} :
          /\ cmpOut' = Compared("compare", rc)
          /\ runsDir' = rc.root
    /\ UNCHANGED <<cmpSpec, notComparator>>

\* Two runs and the comparison of one with the other.
InitCompare == InitComparator /\ cmpSpec = NoDict

NextCompare ==
    \/ \E name \in {"r1", "r2"} : MakeRunDir(name)
    \/ \E name \in {"r1", "r2"} :
          \E sheet \in NextSheets(runsDir.entries[name].gemini) : WriteJudgeFiles(name, sheet)
    \/ \E current_id, baseline_id \in RunNames : CompareRunsMain(current_id, baseline_id)

SpecCompare == InitCompare /\ [][NextCompare]_vars

\* Runs made one after another, each synthesized or compared under the run
\* spec of the moment.
InitBaseline ==
    /\ InitComparator
    /\ cmpSpec \in {s \in CmpSpecs : "baseline_run_id" \notin DOMAIN s}

NextBaseline ==
    \/ \E name \in RunNames : MakeRunDir(name)
    \/ \E name \in RunNames : WriteJudgeFiles(name, BaseSheet)
    \/ WriteCmpSpec
    \/ SynthesizeRun
    \/ CompareRun

SpecBaseline == InitBaseline /\ [][NextBaseline]_vars

----------------------------------------------------------------------------
(* Claims about the validator, checked under SpecValidator *)

\* The checks of the claim, read off the files and the environment.
FailedChecks(spec, fsys, key) ==
    {c \in {"V3", "V4", "V5", "V6", "V7"} :
        \/ c = "V3" /\ ("styles" \notin DOMAIN spec \/ Len(spec["styles"]) /= 3)
        \/ c = "V4" /\ ("image_count" \notin DOMAIN spec \/ spec["image_count"] /= 3)
        \/ c = "V5" /\ ("output_dir" \notin DOMAIN spec \/ fsys[spec["output_dir"]].exists)
        \/ c = "V6" /\ "baseline_run_id" \in DOMAIN spec
                    /\ ~fsys[RunDir(spec["baseline_run_id"])].exists
        \/ c = "V7" /\ ~key}

C2_ParseShortCircuit ==
    (outcome.cmd = "validate" /\ runSpecFile.state /= "json") =>
        /\ outcome.exc = "ValidationError"
        /\ outcome.errors = <<IF runSpecFile.state = "missing" THEN "V1" ELSE "V2">>
        /\ Range(outcome.checked) \cap {"V3", "V4", "V5", "V6", "V7"} = {}

\* C2 witness: a validate of an unparsable run_spec.json while an output
\* directory exists and the API key is unset (V5 and V7 would fail).
C2_Witness ==
    /\ outcome.cmd = "validate"
    /\ runSpecFile.state = "invalid"
    /\ \E d \in OutputDirs : dirs[d].exists
    /\ ~envKey
    /\ outcome.errors = <<"V2">>

\* C3: an output directory is a fresh, immutable artifact set: a validate of a
\* spec naming an existing output_dir fails with V5, and no command writes
\* again into a directory that already existed.
C3_FreshImmutableOutputDir ==
    /\ [](outcome.cmd = "validate" /\ runSpecFile.state = "json"
            /\ "output_dir" \in DOMAIN runSpecFile.json
            /\ dirs[runSpecFile.json["output_dir"]].exists
          => \E i \in DOMAIN outcome.errors : outcome.errors[i] = "V5")
    /\ [][\A d \in OutputDirs : dirs[d].exists => dirs'[d] = dirs[d]]_vars

----------------------------------------------------------------------------
(* Claims about the scorer, checked under SpecScorer *)

Evaluated == evaluation /= NoDict

\* The judge's dimension_score (thousandths), 0 for a dimension it left out.
Judged(dimension) ==
    IF dimension \in DOMAIN judge THEN judge[dimension]["dimension_score"] ELSE 0

Clamp(x, lo, hi) == IF x < lo THEN lo ELSE IF x > hi THEN hi ELSE x

\* C4: whatever dimension_score the judge reports, the dimension_score stored by
\* calculate_v3_scores lies in [0,5] and weighted_score is the clamped value
\* times the weight.
C4_DimensionScoreClamped ==
    Evaluated =>
        \A d \in Range(Dimensions) :
            /\ evaluation.dimensions[d].dimension_score >= 0
            /\ evaluation.dimensions[d].dimension_score <= 500
            /\ evaluation.dimensions[d].weighted_score =
                   RoundDiv(Clamp(Judged(d), 0, 5000) * Weight2(d), 20)

\* The unrounded sum of dimension_score x weight, in 1/2000 of a point.
RECURSIVE ExactWeightedSum(_)
ExactWeightedSum(seq) ==
    IF seq = <<>> THEN 0
    ELSE Judged(Head(seq)) * Weight2(Head(seq)) + ExactWeightedSum(Tail(seq))

\* C5: weighted_total is the sum over the 5 dimensions of dimension_score x
\* weight (to the 2 decimals the scorer keeps: each of the two half-weight
\* terms is rounded, so within 0.01), a missing dimension counting 0; it never
\* exceeds 25.0 and is exactly 25.0 when every dimension_score is 5.
C5_WeightedTotal ==
    Evaluated =>
        LET wt == evaluation.summary.weighted_total
            exact == ExactWeightedSum(Dimensions)
        IN  /\ wt * 20 - exact <= 20
            /\ exact - wt * 20 <= 20
            /\ wt <= 2500
            /\ (\A d \in Range(Dimensions) : Judged(d) = 5000) => wt = 2500

\* C6: the reported percentage is never below 0 and never above 100.
C6_PercentageInRange ==
    Evaluated =>
        /\ evaluation.summary.percentage >= 0
        /\ evaluation.summary.percentage <= 10000

\* With every judged score inside [0,5] the three statements hold of the code:
\* they fail only on a judge value that calculate_v3_scores does not clamp.
ScorerSoundOnValidInput ==
    (Evaluated /\ \A d \in Range(Dimensions) : Judged(d) >= 0 /\ Judged(d) <= 5000) =>
        C4_DimensionScoreClamped /\ C5_WeightedTotal /\ C6_PercentageInRange

----------------------------------------------------------------------------
(* Claims about the grade functions, checked under SpecGrader *)

\* C7: grade(p) is A+ if p >= 90, else A if p >= 80, else B if p >= 70, else C
\* if p >= 60, else F, and config.get_grade, run_acrue_v3.get_grade and
\* run_acrue_eval.get_grade return that grade for every percentage, negative
\* ones included.
C7_GradeBreakpoints ==
    LET expected ==
            CASE pct >= 9000 -> "A+"
              [] pct < 9000 /\ pct >= 8000 -> "A"
              [] pct < 8000 /\ pct >= 7000 -> "B"
              [] pct < 7000 /\ pct >= 6000 -> "C"
              [] pct < 6000 -> "F"
    IN  \A i \in DOMAIN grades : grades[i] /= "none" => grades[i] = expected

\* C7 witness: all three implementations have graded a negative percentage.
C7_Witness ==
    /\ pct < 0
    /\ DOMAIN grades = GradeImpls
    /\ \A i \in GradeImpls : grades[i] = "F"

----------------------------------------------------------------------------
(* Claims about the rank aggregator, checked under SpecRanker *)

Ranked == gemini /= NoDict

\* A field of an item record, wherever the record keeps it: in the summary
\* dict, or at top level; the placeholder of a failed judge call has none.
ItemField(item, field, default) ==
    IF "summary" \in DOMAIN item /\ item["summary"].type = "dict"
    THEN Get(item["summary"].value, field, default)
    ELSE Get(item, field, default)

ItemsOf(style) == SelectSeq(acrue, LAMBDA r : "style" \in DOMAIN r /\ r["style"] = style)

StylesOfInput == {acrue[i]["style"] : i \in {j \in DOMAIN acrue : "style" \in DOMAIN acrue[j]}}

RECURSIVE SumItemField(_, _)
SumItemField(items, field) ==
    IF items = <<>> THEN 0
    ELSE ItemField(Head(items), field, 0) + SumItemField(Tail(items), field)

RECURSIVE SumWeightedTotal(_)
\* the items' weighted_total, which the judge's raw JSON calls total
SumWeightedTotal(items) ==
    IF items = <<>> THEN 0
    ELSE ItemField(Head(items), "weighted_total", Get(Head(items), "total", 0))
         + SumWeightedTotal(Tail(items))

MeansOfItems ==
    /\ gemini.exc = "none"
    /\ \A style \in StylesOfInput :
          \E i \in DOMAIN gemini.rankings :
              LET r == gemini.rankings[i]
                  items == ItemsOf(style)
              IN  /\ r.style = style
                  /\ r.avg_score = RoundDiv(SumWeightedTotal(items), Len(items))
                  /\ r.avg_percentage =
                         10 * RoundDiv(SumItemField(items, "percentage"), 10 * Len(items))

ScoredRecordsOnly == \A i \in DOMAIN acrue : "error" \notin DOMAIN acrue[i]

\* C8: for every style, avg_score is the mean of its items' weighted_total
\* (2 decimals) and avg_percentage the mean of their percentage (1 decimal),
\* for records with weighted_total, percentage and grade at top level (summary
\* a text, or absent) as well as for records with these fields in a summary dict.
C8_MeansForEveryRecordShape ==
    (Ranked /\ ScoredRecordsOnly
        /\ producer \in {"item_evaluation", "item_record", "run_acrue_v3"})
    => MeansOfItems

\* What the code does achieve: the means are right for records with a summary
\* dict and for records with top-level total, percentage and grade.
MeansForReadableShapes ==
    (Ranked /\ ScoredRecordsOnly /\ producer \in {"run_acrue_v3", "run_acrue_evals"})
    => MeansOfItems

RECURSIVE SumOrdinals(_)
SumOrdinals(items) ==
    IF items = <<>> THEN 0
    ELSE LET g == ItemField(Head(items), "grade", "F")
         IN  (IF g = "A+" THEN 5 ELSE IF g = "A" THEN 4 ELSE IF g = "B" THEN 3
              ELSE IF g = "C" THEN 2 ELSE 1) + SumOrdinals(Tail(items))

\* C9: avg_grade is the letter of the mean m of the items' grade ordinals
\* (A+ 5, A 4, B 3, C 2, F 1): A+ for m >= 4.5, A for 3.5 <= m < 4.5, B for
\* 2.5 <= m < 3.5, C for 1.5 <= m < 2.5, F below (twice the sum of the ordinals
\* is compared with 9, 7, 5, 3 times the number of items).
C9_AvgGradeOfOrdinalMean ==
    (Ranked /\ gemini.exc = "none") =>
        \A i \in DOMAIN gemini.rankings :
            LET r == gemini.rankings[i]
                items == ItemsOf(r.style)
                n == Len(items)
                twice == 2 * SumOrdinals(items)
            IN  /\ r.avg_grade = "A+" <=> twice >= 9 * n
                /\ r.avg_grade = "A" <=> (twice >= 7 * n /\ twice < 9 * n)
                /\ r.avg_grade = "B" <=> (twice >= 5 * n /\ twice < 7 * n)
                /\ r.avg_grade = "C" <=> (twice >= 3 * n /\ twice < 5 * n)
                /\ r.avg_grade = "F" <=> twice < 3 * n

\* C9 witness: a style of several items, each graded get_grade(its percentage),
\* whose avg_grade differs from get_grade(avg_percentage).
C9_Witness ==
    /\ Ranked /\ gemini.exc = "none"
    /\ \E i \in DOMAIN gemini.rankings :
          LET r == gemini.rankings[i]
              items == ItemsOf(r.style)
          IN  /\ Len(items) >= 2
              /\ \A k \in DOMAIN items :
                    ItemField(items[k], "grade", "F") = get_grade(ItemField(items[k], "percentage", 0))
              /\ r.avg_grade /= get_grade(r.avg_percentage)

FirstIndex(style) ==
    CHOOSE i \in DOMAIN acrue :
        /\ acrue[i]["style"] = style
        /\ \A j \in 1..(i - 1) : acrue[j]["style"] /= style

\* C10: the rankings hold each style of the input exactly once, ranks 1..N in
\* order, avg_score non-increasing, and of two styles with the same avg_score
\* the one whose first item comes earlier in the input has the better rank.
C10_RanksAndTieBreak ==
    (Ranked /\ gemini.exc = "none") =>
        LET rk == gemini.rankings
        IN  /\ {rk[i].style : i \in DOMAIN rk} = StylesOfInput
            /\ Len(rk) = Cardinality(StylesOfInput)
            /\ \A i \in DOMAIN rk : rk[i].rank = i
            /\ \A i, j \in DOMAIN rk :
                  i < j =>
                     /\ rk[i].avg_score >= rk[j].avg_score
                     /\ rk[i].avg_score = rk[j].avg_score
                           => FirstIndex(rk[i].style) < FirstIndex(rk[j].style)

\* C10 witness: three styles ranked, the first two tied above the third.
C10_Witness ==
    /\ Ranked /\ gemini.exc = "none"
    /\ Len(gemini.rankings) = 3
    /\ gemini.rankings[1].avg_score = gemini.rankings[2].avg_score
    /\ gemini.rankings[2].avg_score > gemini.rankings[3].avg_score

----------------------------------------------------------------------------
(* Claims about the synthesizer, checked under SpecSynth *)

Synthesized == synthesis /= NoDict

\* The styles one judge file ranks.
RankedIn(file) == {file.rankings[i].style : i \in DOMAIN file.rankings}

\* Position of a style in spec["styles"].
SpecIndex(style) == CHOOSE i \in DOMAIN synthSpec.styles : synthSpec.styles[i] = style

\* C11: synthesize_results returns exactly one ranking entry for every style
\* declared in spec.styles, also for one in neither rank map, and none for a
\* style that is only in a rank map; the final ranks are a permutation of
\* 1..N; winner is the style of the entry with final rank 1 and so a declared style.
C11_EntryPerDeclaredStyle ==
    Synthesized =>
        /\ synthesis.exc = "none"
        /\ Len(synthesis.rankings) = Len(synthSpec.styles)
        /\ \A s \in Range(synthSpec.styles) :
              Cardinality({i \in DOMAIN synthesis.rankings : synthesis.rankings[i].style = s}) = 1
        /\ \A i \in DOMAIN synthesis.rankings :
              synthesis.rankings[i].style \in Range(synthSpec.styles)
        /\ {synthesis.rankings[i].rank : i \in DOMAIN synthesis.rankings}
              = 1..Len(synthSpec.styles)
        /\ \E i \in DOMAIN synthesis.rankings :
              /\ synthesis.rankings[i].rank = 1
              /\ synthesis.winner = synthesis.rankings[i].style
        /\ synthesis.winner \in Range(synthSpec.styles)

\* Reached: a synthesis where one declared style is in neither rank map and
\* both rank maps hold a style the spec does not declare.
C11_Witness ==
    /\ Synthesized
    /\ \E s \in Range(synthSpec.styles) :
          s \notin RankedIn(geminiRankings) \cup RankedIn(opusRankings)
    /\ \E s \in RankedIn(geminiRankings) \cap RankedIn(opusRankings) :
          s \notin Range(synthSpec.styles)
    /\ Len(synthesis.rankings) = 3

\* C12: a style absent from one judge's rank map, or from both, never aborts
\* synthesis: with 3 candidates its rank in that source is 3, and the
\* synthesis completes with a full ranking and a winner.
C12_AbsentStyleRanksThird ==
    Synthesized =>
        /\ synthesis.exc = "none"
        /\ Len(synthesis.rankings) = Len(synthSpec.styles)
        /\ synthesis.winner \in Range(synthSpec.styles)
        /\ \A i \in DOMAIN synthesis.rankings :
              LET r == synthesis.rankings[i]
              IN  /\ r.style \notin RankedIn(geminiRankings) => r.gemini_rank = 3
                  /\ r.style \notin RankedIn(opusRankings) => r.opus_rank = 3
                  /\ r.style \in RankedIn(geminiRankings) =>
                        r.gemini_rank = RankMap(geminiRankings.rankings)[r.style]
                  /\ r.style \in RankedIn(opusRankings) =>
                        r.opus_rank = RankMap(opusRankings.rankings)[r.style]

\* Reached: a synthesis with a declared style that only the preference judge
\* ranked (first there, third by default in the feasibility source) and
\* another one that no judge ranked.
C12_Witness ==
    /\ Synthesized
    /\ \E i, j \in DOMAIN synthesis.rankings :
          /\ synthesis.rankings[i].style \notin RankedIn(geminiRankings)
          /\ synthesis.rankings[i].style \in RankedIn(opusRankings)
          /\ synthesis.rankings[i].opus_rank = 1
          /\ synthesis.rankings[i].gemini_rank = 3
          /\ synthesis.rankings[j].style \notin RankedIn(geminiRankings) \cup RankedIn(opusRankings)
          /\ synthesis.rankings[j].gemini_rank = 3
          /\ synthesis.rankings[j].opus_rank = 3

\* C13: final_score = feasibility_weight * gemini_rank + preference_weight *
\* opus_rank for every style; the rankings are in non-decreasing final_score
\* order, and styles with equal final_score keep their spec.styles order (the
\* earlier one gets the better rank and, at the top, wins).
C13_FinalScoreOrder ==
    Synthesized =>
        /\ \A i \in DOMAIN synthesis.rankings :
              LET r == synthesis.rankings[i]
              IN  r.final_score = synthSpec.synthesis.feasibility_weight * r.gemini_rank
                                  + synthSpec.synthesis.preference_weight * r.opus_rank
        /\ \A i, j \in DOMAIN synthesis.rankings :
              i < j =>
                 /\ synthesis.rankings[i].final_score <= synthesis.rankings[j].final_score
                 /\ synthesis.rankings[i].rank < synthesis.rankings[j].rank
                 /\ synthesis.rankings[i].final_score = synthesis.rankings[j].final_score
                       => SpecIndex(synthesis.rankings[i].style)
                            < SpecIndex(synthesis.rankings[j].style)

\* Reached: a synthesis whose two best styles tie on final_score with
\* different judge ranks; the one listed earlier in the spec wins.
C13_Witness ==
    /\ Synthesized
    /\ synthesis.rankings[1].final_score = synthesis.rankings[2].final_score
    /\ synthesis.rankings[2].final_score < synthesis.rankings[3].final_score
    /\ synthesis.rankings[1].gemini_rank /= synthesis.rankings[2].gemini_rank
    /\ synthesis.winner = synthesis.rankings[1].style
    /\ SpecIndex(synthesis.rankings[1].style) < SpecIndex(synthesis.rankings[2].style)

\* Both judge files rank exactly the declared styles, in the same order.
SameRanking ==
    /\ geminiRankings = opusRankings
    /\ RankedIn(geminiRankings) = Range(synthSpec.styles)

PositiveWeights ==
    /\ synthSpec.synthesis.feasibility_weight > 0
    /\ synthSpec.synthesis.preference_weight > 0

\* C14: when both judges give the same ranking of the declared styles and
\* both weights are positive, the final ranking is that ranking and each
\* final_score is (w1 + w2) * rank; a style ranked 1 by both judges wins.
C14_AgreeingJudges ==
    (Synthesized /\ PositiveWeights) =>
        /\ SameRanking =>
              \A i \in DOMAIN synthesis.rankings :
                 LET r == synthesis.rankings[i]
                     common == RankMap(geminiRankings.rankings)[r.style]
                 IN  /\ r.rank = common
                     /\ r.final_score = (synthSpec.synthesis.feasibility_weight
                                         + synthSpec.synthesis.preference_weight) * common
        /\ \A i \in DOMAIN synthesis.rankings :
              (synthesis.rankings[i].gemini_rank = 1 /\ synthesis.rankings[i].opus_rank = 1)
                 => synthesis.winner = synthesis.rankings[i].style

\* Reached: styles [Anime, Pop Art, Storybook] ranked 1, 2, 3 by both judges
\* with weights 0.5/0.5: winner Anime, final scores 1.0, 2.0, 3.0.
C14_Witness ==
    /\ Synthesized
    /\ SameRanking
    /\ synthSpec.synthesis = [feasibility_weight |-> 2, preference_weight |-> 2]
    /\ [i \in 1..3 |-> geminiRankings.rankings[i].style] = synthSpec.styles
    /\ synthesis.winner = "Anime"
    /\ [i \in 1..3 |-> synthesis.rankings[i].final_score] = <<4, 8, 12>>
    /\ [i \in 1..3 |-> synthesis.rankings[i].style] = synthSpec.styles

----------------------------------------------------------------------------
(* Claims about the ledger, checked under SpecLedger and SpecLedgerRace *)

\* Process w completes a persist in this step (wb.save).
Saves(w) == writers[w].pc = "open" /\ writers'[w].pc = "idle"

\* The Summary worksheet of a ledger file (no rows when there is none).
SummaryOf(file) ==
    IF file.state = "xlsx" /\ "Summary" \in DOMAIN file.wb.sheets
    THEN file.wb.sheets["Summary"] ELSE <<>>

\* The rows below the header whose run_id column holds the run id.
SummaryRowsOf(file, run_id) ==
    {r \in 2..Len(SummaryOf(file)) : Cell(SummaryOf(file), r, 1) = Str(run_id)}

\* The sheets of a ledger file with the given name.
SheetsNamed(file, name) ==
    {i \in DOMAIN file.wb.sheetnames : file.wb.sheetnames[i] = name}

\* C15: every persist of a run_id adds a summary row for it (two persists of
\* the same run_id leave two rows: the append is not idempotent) and leaves
\* exactly one detail sheet named run_id, holding what this persist wrote
\* (the upsert is idempotent); no sheet name occurs twice in the workbook.
C15_AppendTwiceUpsertOnce ==
    [][\A w \in Writers :
          Saves(w) =>
             LET run_id == writers[w].call.spec.run_id
             IN  /\ Cardinality(SummaryRowsOf(excel', run_id))
                       = Cardinality(SummaryRowsOf(writers[w].loaded, run_id)) + 1
                 /\ Cardinality(SheetsNamed(excel', run_id)) = 1
                 /\ excel'.wb.sheets[run_id]
                       = SavedSheet(DetailSheet(run_id, writers[w].call.synthesis))
                 /\ \A i, j \in DOMAIN excel'.wb.sheetnames :
                       excel'.wb.sheetnames[i] = excel'.wb.sheetnames[j] => i = j]_vars

\* The same, for the run ids that are not the name of the summary sheet.
AppendTwiceUpsertOnce_OtherNames ==
    [][\A w \in Writers :
          (Saves(w) /\ writers[w].call.spec.run_id /= "Summary") =>
             LET run_id == writers[w].call.spec.run_id
             IN  /\ Cardinality(SummaryRowsOf(excel', run_id))
                       = Cardinality(SummaryRowsOf(writers[w].loaded, run_id)) + 1
                 /\ Cardinality(SheetsNamed(excel', run_id)) = 1
                 /\ excel'.wb.sheets[run_id]
                       = SavedSheet(DetailSheet(run_id, writers[w].call.synthesis))]_vars

\* C16: the summary ledger is append-only: a persist on a valid store, for
\* any run_id, adds exactly one summary row after the last existing row and
\* leaves the earlier summary rows and the detail sheets of all other
\* run_ids unchanged.
C16_SummaryAppendOnly ==
    [][\A w \in Writers :
          (Saves(w) /\ writers[w].loaded.state = "xlsx") =>
             LET run_id == writers[w].call.spec.run_id
                 old == SummaryOf(writers[w].loaded)
                 new == SummaryOf(excel')
             IN  /\ Len(new) = MaxRow(old) + 1
                 /\ Cell(new, Len(new), 1) = Str(run_id)
                 /\ Cardinality(SummaryRowsOf(excel', run_id))
                       = Cardinality(SummaryRowsOf(writers[w].loaded, run_id)) + 1
                 /\ \A r \in 2..Len(old) : r <= Len(new) /\ new[r] = old[r]
                 /\ \A n \in DOMAIN writers[w].loaded.wb.sheets \ {"Summary", run_id} :
                       /\ n \in DOMAIN excel'.wb.sheets
                       /\ excel'.wb.sheets[n] = writers[w].loaded.wb.sheets[n]]_vars

\* C17: the content of every store that persist_to_excel found not to be a
\* valid .xlsx is kept in a backup.
C17_BackupKeepsEveryCorruptStore ==
    \A content \in found : backup = NotXlsx(content)

\* The recovery itself: the persist that finds such a store saves a fresh
\* ledger with the fixed header and its own row, and the backup holds the
\* store it found.
RecoveryMakesFreshStore ==
    [][\A w \in Writers :
          (writers[w].pc = "idle" /\ writers'[w].pc = "open"
              /\ excel.state /= "missing" /\ ~is_valid_xlsx(excel)) =>
             /\ backup' = excel
             /\ writers'[w].wb = NewWorkbook]_vars

C19_OneWriterAtATime ==
    Cardinality({w \in Writers : writers[w].pc = "open"}) <= 1

----------------------------------------------------------------------------
(* Claims about the run loader, checked under SpecLoader *)

Loaded == runResults /= NoDict

\* The entries of gemini.json for a style that carry the field.
GeminiGives(style, field) ==
    IF runFiles.gemini.exists
    THEN {i \in DOMAIN runFiles.gemini.data.rankings :
             /\ runFiles.gemini.data.rankings[i]["style"] = style
             /\ field \in DOMAIN runFiles.gemini.data.rankings[i]}
    ELSE {}

\* The records of acrue.json for a style, as scores.
AcrueScoresOf(style) ==
    IF runFiles.acrue.exists
    THEN SelectSeq([i \in DOMAIN runFiles.acrue.data |-> AcrueScores(runFiles.acrue.data[i])],
                   LAMBDA s : s.style = style)
    ELSE <<>>

\* C20: first-write-wins: a per-style field (avg_score, avg_percentage,
\* avg_grade) that gemini.json provides is never replaced by the value
\* aggregated from acrue.json, and acrue.json fills every such field the
\* higher-priority sources leave absent, also for a style that gemini.json
\* lists without that field.
C20_FirstWriteWins ==
    Loaded =>
       \A style \in LoaderStyles, field \in AggregateFields :
          /\ GeminiGives(style, field) /= {} =>
                \E i \in GeminiGives(style, field) :
                   /\ style \in DOMAIN runResults.styles
                   /\ field \in DOMAIN runResults.styles[style]
                   /\ runResults.styles[style][field] = runFiles.gemini.data.rankings[i][field]
          /\ (GeminiGives(style, field) = {} /\ AcrueScoresOf(style) /= <<>>) =>
                /\ style \in DOMAIN runResults.styles
                /\ field \in DOMAIN runResults.styles[style]
                /\ runResults.styles[style][field] = AcrueAverages(AcrueScoresOf(style))[field]

\* The same, where "absent" means that gemini.json does not list the style.
FirstWriteWins_UnlistedStyles ==
    Loaded =>
       \A style \in LoaderStyles, field \in AggregateFields :
          /\ GeminiGives(style, field) /= {} =>
                \E i \in GeminiGives(style, field) :
                   runResults.styles[style][field] = runFiles.gemini.data.rankings[i][field]
          /\ (GeminiGives(style, "style") = {} /\ AcrueScoresOf(style) /= <<>>) =>
                runResults.styles[style][field] = AcrueAverages(AcrueScoresOf(style))[field]

----------------------------------------------------------------------------
(* Claims about compare_runs, checked under SpecCompare *)

\* A comparison was made by the last command.
ComparisonMade == cmpOut.comparison /= None

\* What load_run_results gives for a style of a run: its fields, and its
\* avg_percentage (0 when the run has none for it).
StylesOfRun(run_id) == load_run_results(runsDir.entries[run_id]).styles
PctOfRun(run_id, style) ==
    Get(Get(StylesOfRun(run_id), style, NoDict), "avg_percentage", 0)

\* The entries of the comparison for one style.
DeltasOf(style) ==
    {i \in DOMAIN cmpOut.comparison.styles : cmpOut.comparison.styles[i].style = style}

\* Every style of the union has exactly one entry, its delta_pct is the
\* difference rounded to one decimal, and its status is statusOf(delta_pct).
OneDeltaPerStyle(statusOf(_)) ==
    ComparisonMade =>
        LET c == cmpOut.comparison
        IN  \A style \in DOMAIN StylesOfRun(c.current_run_id)
                          \cup DOMAIN StylesOfRun(c.baseline_run_id) :
                /\ Cardinality(DeltasOf(style)) = 1
                /\ \A i \in DeltasOf(style) :
                      /\ c.styles[i].current_pct = PctOfRun(c.current_run_id, style)
                      /\ c.styles[i].baseline_pct = PctOfRun(c.baseline_run_id, style)
                      /\ c.styles[i].delta_pct =
                             10 * RoundDiv(c.styles[i].current_pct - c.styles[i].baseline_pct, 10)
                      /\ c.styles[i].status = statusOf(c.styles[i].delta_pct)

\* The status of the claim, and the status the code writes.
StatusLowerCase(delta_pct) ==
    IF delta_pct < 50 /\ delta_pct > -50 THEN "unchanged"
    ELSE IF delta_pct > 0 THEN "improved" ELSE "regression"
StatusAsWritten(delta_pct) ==
    IF delta_pct < 50 /\ delta_pct > -50 THEN "unchanged"
    ELSE IF delta_pct > 0 THEN "improved" ELSE "REGRESSION"

\* C21: for every style in the union of the styles of the current and the
\* baseline run, compare_runs emits exactly one entry with delta_pct =
\* round(current_pct - baseline_pct, 1) and status "unchanged" if
\* |delta_pct| < 0.5, else "improved" if delta_pct > 0, else "regression".
C21_OneDeltaPerStyle == OneDeltaPerStyle(StatusLowerCase)

\* The same statement with the third status spelled "REGRESSION", as
\* compare_runs writes it: it holds, the spelling is all C21 fails on.
OneDeltaPerStyle_AsWritten == OneDeltaPerStyle(StatusAsWritten)

\* The example of the claim is reached: baseline 80.0, and a current run at
\* 80.3 (unchanged) and 75.0 (delta -5.0), and one at 82.0 (improved).
DeltaExamples_Reached ==
    /\ ComparisonMade
    /\ \E i, j \in DOMAIN cmpOut.comparison.styles :
          LET a == cmpOut.comparison.styles[i]
              b == cmpOut.comparison.styles[j]
          IN  /\ a.baseline_pct = 8000 /\ a.current_pct = 8030
              /\ a.delta_pct = 30 /\ a.status = "unchanged"
              /\ b.baseline_pct = 8000 /\ b.current_pct = 7500
              /\ b.delta_pct = -500 /\ b.status = "REGRESSION"

\* The status follows the rounded delta: 80.47 against 80.0 is a delta of
\* 0.5 and "improved".
RoundedDelta_Reached ==
    /\ ComparisonMade
    /\ \E i \in DOMAIN cmpOut.comparison.styles :
          LET a == cmpOut.comparison.styles[i]
          IN  a.baseline_pct = 8000 /\ a.current_pct = 8047
              /\ a.delta_pct = 50 /\ a.status = "improved"

\* The number of entries of the comparison with a status.
EntriesWith(status) ==
    Cardinality({i \in DOMAIN cmpOut.comparison.styles :
                    cmpOut.comparison.styles[i].status = status})

\* C22: overall_verdict is REGRESSION_DETECTED if at least one style
\* regressed, else IMPROVED if at least one improved, else UNCHANGED; the
\* counters improved, regressed and unchanged add up to the number of styles
\* in the union of both runs, and each is the number of entries with that
\* status (the regressed entries are those compare_runs marks "REGRESSION").
C22_VerdictAndCounters ==
    ComparisonMade =>
        LET c == cmpOut.comparison
            union == DOMAIN StylesOfRun(c.current_run_id)
                         \cup DOMAIN StylesOfRun(c.baseline_run_id)
        IN  /\ c.summary.overall_verdict =
                   (IF EntriesWith("REGRESSION") > 0 THEN "REGRESSION_DETECTED"
                    ELSE IF EntriesWith("improved") > 0 THEN "IMPROVED"
                    ELSE "UNCHANGED")
            /\ c.summary.improved = EntriesWith("improved")
            /\ c.summary.regressed = EntriesWith("REGRESSION")
            /\ c.summary.unchanged = EntriesWith("unchanged")
            /\ c.summary.improved + c.summary.regressed + c.summary.unchanged
                   = Cardinality(union)

\* C22 witness: a comparison in which one style improved and the other
\* regressed; the verdict is REGRESSION_DETECTED.
C22_Witness ==
    /\ ComparisonMade
    /\ cmpOut.comparison.summary.improved = 1
    /\ cmpOut.comparison.summary.regressed = 1
    /\ cmpOut.comparison.summary.unchanged = 0
    /\ cmpOut.comparison.summary.overall_verdict = "REGRESSION_DETECTED"

----------------------------------------------------------------------------
(* Claims about baseline resolution and the comparing commands, checked     *)
(* under SpecBaseline *)

\* The run spec names a baseline.
ExplicitBaseline ==
    "baseline_run_id" \in DOMAIN cmpSpec /\ cmpSpec["baseline_run_id"] /= ""

\* C23: in run_comparison a baseline_run_id set in the run spec is the
\* baseline and find_latest_prior_run is not consulted; only when it is unset
\* is find_latest_prior_run used; when neither yields a baseline, compare_runs
\* is not called, nothing is written and None is returned.
C23_BaselineResolution ==
    cmpOut.called =>
        /\ ExplicitBaseline =>
              ~cmpOut.auto /\ cmpOut.baseline = Str(cmpSpec["baseline_run_id"])
        /\ ~ExplicitBaseline => cmpOut.auto
        /\ cmpOut.baseline = None =>
              ~cmpOut.compared /\ cmpOut.comparison = None
              /\ "comparison.json" \notin cmpOut.wrote

\* C23 witness: run r10 names r1 as its baseline while the later run r2 is
\* there; the comparison is made against r1.
C23_Witness ==
    /\ cmpOut.called
    /\ cmpSpec["run_id"] = "r10"
    /\ ExplicitBaseline /\ cmpSpec["baseline_run_id"] = "r1"
    /\ runsDir.entries["r2"].kind = "dir"
    /\ cmpOut.comparison /= None
    /\ cmpOut.comparison.baseline_run_id = "r1"

\* Both halves of the last conjunct happen: no baseline set and none found.
NoBaseline_Reached ==
    cmpOut.called /\ ~ExplicitBaseline /\ cmpOut.baseline = None /\ runsDir.exists

\* The run directories other than the current one.
OtherRunDirs(root, current) ==
    {n \in RunNames : root.entries[n].kind = "dir" /\ n /= current}

\* The lexicographically greatest of a non-empty set of names.
GreatestName(names) == CHOOSE g \in names : \A o \in names \ {g} : StrLess(o, g)

NoRunsDir_Reached ==
    cmpOut.called /\ cmpOut.auto /\ ~runsDir.exists /\ cmpOut.baseline = None

\* The comparison failed: no baseline was found, or compare_runs raised.
ComparisonFailed ==
    cmpOut.called /\ (cmpOut.baseline = None \/ (cmpOut.compared /\ cmpOut.comparison = None))

\* C25: in the synthesize command, when no baseline is found or compare_runs
\* raises, run_comparison returns None and the command goes on: no
\* comparison.json is written, synthesis.json and report.md are written and
\* the report has no comparison section.
C25_ComparisonFailureNotFatal ==
    (cmpOut.cmd = "synthesize" /\ ComparisonFailed) =>
        LET output_dir == runsDir.entries[DirName(cmpSpec["output_dir"])]
        IN  /\ cmpOut.exc = "none"
            /\ cmpOut.comparison = None
            /\ cmpOut.wrote = {"synthesis.json", "report.md"}
            /\ output_dir.synthesis.exists
            /\ output_dir.report = "plain"

\* C25 witness: a synthesize whose run spec names a baseline with no run
\* directory: compare_runs raised FileNotFoundError, the run's files are written.
C25_Witness ==
    /\ cmpOut.cmd = "synthesize"
    /\ ExplicitBaseline
    /\ runsDir.entries[cmpSpec["baseline_run_id"]].kind = "none"
    /\ cmpOut.compared /\ cmpOut.comparison = None
    /\ cmpOut.wrote = {"synthesis.json", "report.md"}

\* A synthesize that found no baseline at all (the first run).
FirstRun_Reached ==
    cmpOut.cmd = "synthesize" /\ cmpOut.called /\ cmpOut.baseline = None
    /\ cmpOut.wrote = {"synthesis.json", "report.md"}

\* A synthesize whose comparison succeeded writes the comparison section.
ReportWithComparison_Reached ==
    /\ cmpOut.cmd = "synthesize" /\ cmpOut.comparison /= None
    /\ runsDir.entries[DirName(cmpSpec["output_dir"])].report = "comparison"

\* find_latest_prior_run returned a run id.
AutoBaselineFound == cmpOut.called /\ cmpOut.auto /\ cmpOut.baseline /= None

\* C27: whenever find_latest_prior_run returns a run id, that id sorts
\* strictly before current_run_id, whatever run directories there are.
C27_PriorRunSortsBefore ==
    AutoBaselineFound => StrLess(cmpOut.baseline.value, cmpSpec["run_id"])

\* With no run directory named later than the current run the returned id
\* does sort before it.
PriorRunSortsBefore_NoLaterRun ==
    (AutoBaselineFound
        /\ \A n \in RunNames : runsDir.entries[n].kind = "dir" =>
                                     ~StrLess(cmpSpec["run_id"], n))
        => StrLess(cmpOut.baseline.value, cmpSpec["run_id"])

\* C29: the automatically resolved baseline is never the current run itself:
\* run_comparison never compares the run against its own output directory
\* under RUNS_DIR, even when the directory name of output_dir is not the run id.
C29_BaselineIsNotOwnOutputDir ==
    (AutoBaselineFound /\ cmpOut.comparison /= None) =>
        /\ cmpOut.comparison.baseline_run_id /= cmpSpec["run_id"]
        /\ cmpOut.comparison.baseline_run_id /= DirName(cmpSpec["output_dir"])

\* When the output directory is RUNS_DIR / run_id the baseline is another run.
BaselineIsNotOwnOutputDir_NamedByRunId ==
    (AutoBaselineFound /\ cmpSpec["output_dir"] = RunDir(cmpSpec["run_id"])) =>
        cmpOut.baseline.value /= DirName(cmpSpec["output_dir"])

----------------------------------------------------------------------------
(* Claims about failed judge calls, checked under SpecRanker *)

\* The records of acrue.json left by a failed judge call.
Placeholders == {i \in DOMAIN acrue : "error" \in DOMAIN acrue[i]}

\* The rankings count every record of a style, a placeholder as weighted_total
\* 0, percentage 0 and grade F.
PlaceholdersCountLowest ==
    /\ MeansOfItems
    /\ \A i \in DOMAIN gemini.rankings :
          LET r == gemini.rankings[i]
              items == ItemsOf(r.style)
              twice == 2 * SumOrdinals(items)
          IN  r.avg_grade =
                 (IF twice >= 9 * Len(items) THEN "A+"
                  ELSE IF twice >= 7 * Len(items) THEN "A"
                  ELSE IF twice >= 5 * Len(items) THEN "B"
                  ELSE IF twice >= 3 * Len(items) THEN "C" ELSE "F")

PlaceholderWithStyle_CountsLowest ==
    (Ranked /\ Placeholders /= {} /\ producer \in {"run_acrue_v3", "run_acrue_evals"}
        /\ \A i \in Placeholders : "style" \in DOMAIN acrue[i])
    => (gemini.exc = "none" /\ PlaceholdersCountLowest)

\* The loop went on after a failed pairing, and the style of the failed
\* pairing is ranked with its average halved.
FailedPairing_Reached ==
    /\ Ranked /\ gemini.exc = "none"
    /\ Len(acrue) = 2
    /\ 1 \in Placeholders /\ 2 \notin Placeholders
    /\ acrue[1]["style"] = acrue[2]["style"]
    /\ gemini.rankings[1].avg_percentage = 5000

\* The comparator's loader on a run directory holding only this acrue.json.
LoadedFromAcrue ==
    load_run_results([synthesis |-> Absent, gemini |-> Absent, acrue |-> Present(acrue)]).styles

\* C30: the avg_grade load_run_results derives for a style from acrue.json
\* when the run has no gemini.json is the avg_grade
\* compute_feasibility_rankings computes for that style from the same records.
C30_LoaderAgreesWithAggregator ==
    (Ranked /\ gemini.exc = "none" /\ producer = "run_acrue_v3") =>
        \A i \in DOMAIN gemini.rankings :
            LET r == gemini.rankings[i]
            IN  /\ r.style \in DOMAIN LoadedFromAcrue
                /\ LoadedFromAcrue[r.style]["avg_grade"] = r.avg_grade

\* The two agree on the averages of score and percentage, and on the grade
\* of a style with a single item.
LoaderAgreesWithAggregator_Averages ==
    (Ranked /\ gemini.exc = "none" /\ producer = "run_acrue_v3") =>
        \A i \in DOMAIN gemini.rankings :
            LET r == gemini.rankings[i]
            IN  /\ LoadedFromAcrue[r.style]["avg_score"] = r.avg_score
                /\ LoadedFromAcrue[r.style]["avg_percentage"] = r.avg_percentage
                /\ Len(ItemsOf(r.style)) = 1 =>
                       LoadedFromAcrue[r.style]["avg_grade"] = r.avg_grade

----------------------------------------------------------------------------
(* Claim about the summary record, checked under SpecScorer *)

\* C28: in every summary calculate_v3_summary produces, the reported grade is
\* get_grade of the percentage stored in the same record (rounded to one
\* decimal), for every combination of dimension scores in [0,5].
C28_GradeOfReportedPercentage ==
    (Evaluated /\ \A d \in Range(Dimensions) : Judged(d) >= 0 /\ Judged(d) <= 5000) =>
        evaluation.summary.grade = get_grade(evaluation.summary.percentage)

\* The grade is that of the percentage before it is rounded.
GradeOfUnroundedPercentage ==
    Evaluated =>
        evaluation.summary.grade =
            get_grade((evaluation.summary.weighted_total * 100 * 100) \div MAX_SCORE)
====
